---- MODULE Spec2Model ----
(***************************************************************************)
(* A model of sw_mc_builder: the wire/producer graph, the arithmetic       *)
(* optimizer (optimizer.py) and the microcontroller's placement and        *)
(* resolve pass (microcontroller.py).                                      *)
(*                                                                         *)
(* Objects live in two heaps addressed by index: comps (ComponentWrapper)  *)
(* and wires (Wire); markers holds the InputPlaceholder objects.  Python    *)
(* object identity is the heap index.                                      *)
(***************************************************************************)
EXTENDS Integers, Sequences, FiniteSets, TLC

\* ------------------------------------------------------------------ bounds
\* Numbers range over -MaxVal..MaxVal when an expression is evaluated.
MaxVal == 1

\* --------------------------------------------------------------- constants
\* The variable pool of a fused function (optimizer.py, available_names).
Names == <<"x", "y", "z", "w", "a", "b", "c", "d">>
FunctionPorts ==
    <<"x_input", "y_input", "z_input", "w_input",
      "a_input", "b_input", "c_input", "d_input">>
\* name.replace("_input", "") on a port of a fused function
PortVar(port) ==
    CASE port = "x_input" -> "x" [] port = "y_input" -> "y"
      [] port = "z_input" -> "z" [] port = "w_input" -> "w"
      [] port = "a_input" -> "a" [] port = "b_input" -> "b"
      [] port = "c_input" -> "c" [] port = "d_input" -> "d"
      [] OTHER -> port
\* f"{new_name}_input"
VarPort(name) == name \o "_input"
\* The fan-in budget of a fused function.
InputBudget == 8
\* Channels of a composite write: range(1, 33).
NumChannels == 32
ChannelPort(i) == "channel_" \o ToString(i) \o "_input"

\* ------------------------------------------------------------- expressions
\* The text of a function is modelled by its syntax tree.  Leaves: a variable
\* token, a number literal, a boolean literal, the per-candidate placeholder
\* token f"{name}_{var}" of the merge, and the token str(id(wire)) of the
\* numerical-boolean lowering.
Var(n) == [op |-> "var", name |-> <<n>>, val |-> 0, args |-> <<>>]
Num(v) == [op |-> "num", name |-> <<>>, val |-> v, args |-> <<>>]
BoolLit(v) == [op |-> "bool", name |-> <<>>, val |-> v, args |-> <<>>]
Tmp(port, v) == [op |-> "tmp", name |-> <<port, v>>, val |-> 0, args |-> <<>>]
WireTok(w) == [op |-> "wire", name |-> <<>>, val |-> w, args |-> <<>>]
Op1(o, e) == [op |-> o, name |-> <<>>, val |-> 0, args |-> <<e>>]
Op2(o, e1, e2) == [op |-> o, name |-> <<>>, val |-> 0, args |-> <<e1, e2>>]
Op3(o, e1, e2, e3) ==
    [op |-> o, name |-> <<>>, val |-> 0, args |-> <<e1, e2, e3>>]

RECURSIVE ReplaceTok(_, _, _)
\* re.sub(rf"\b{tok}\b", new, text) and text.replace(tok, new): every
\* occurrence of the token is replaced by (the parenthesised) new.
ReplaceTok(e, tok, new) ==
    IF e = tok THEN new
    ELSE IF Len(e.args) = 0 THEN e
    ELSE IF Len(e.args) = 1
      THEN [e EXCEPT !.args = <<ReplaceTok(e.args[1], tok, new)>>]
    ELSE IF Len(e.args) = 2
      THEN [e EXCEPT !.args = <<ReplaceTok(e.args[1], tok, new),
                                ReplaceTok(e.args[2], tok, new)>>]
    ELSE [e EXCEPT !.args = <<ReplaceTok(e.args[1], tok, new),
                              ReplaceTok(e.args[2], tok, new),
                              ReplaceTok(e.args[3], tok, new)>>]

RECURSIVE Tokens(_)
\* The leaves of an expression.
Tokens(e) ==
    IF Len(e.args) = 0 THEN {e}
    ELSE UNION {Tokens(e.args[i]) : i \in 1..Len(e.args)}

Sgn(v) == IF v < 0 THEN -1 ELSE 1
AbsV(v) == IF v < 0 THEN -v ELSE v
MaxV(u, v) == IF u < v THEN v ELSE u
MinV(u, v) == IF u < v THEN u ELSE v

RECURSIVE EvalExpr(_, _)
\* The value of a function body; env gives the value of each of the eight
\* variables (0 for a variable whose port is not connected).  Booleans are
\* 0 and 1.  A placeholder or wire token left in a body has no value: -99.
EvalExpr(e, env) ==
    LET A(i) == EvalExpr(e.args[i], env) IN
    CASE e.op = "var" -> env[e.name[1]]
      [] e.op = "num" -> e.val
      [] e.op = "bool" -> e.val
      [] e.op = "+" -> A(1) + A(2)
      [] e.op = "-" -> A(1) - A(2)
      [] e.op = "*" -> A(1) * A(2)
      [] e.op = "half" -> A(1) \div 2
      [] e.op = "sgn" -> Sgn(A(1))
      [] e.op = "abs" -> AbsV(A(1))
      [] e.op = "max" -> MaxV(A(1), A(2))
      [] e.op = "clamp" -> MaxV(A(2), MinV(A(3), A(1)))
      [] e.op = "&" -> IF A(1) # 0 /\ A(2) # 0 THEN 1 ELSE 0
      [] e.op = "|" -> IF A(1) # 0 \/ A(2) # 0 THEN 1 ELSE 0
      [] e.op = "^" -> IF (A(1) # 0) # (A(2) # 0) THEN 1 ELSE 0
      [] e.op = "!" -> IF A(1) # 0 THEN 0 ELSE 1
      [] OTHER -> -99

\* -------------------------------------------------------------------- heap
\* A producer: a ComponentWrapper (id indexes comps), an InputPlaceholder (id
\* indexes markers), Unconnected or Placeholder.
CW(id) == [k |-> "ComponentWrapper", id |-> id]
IP(id) == [k |-> "InputPlaceholder", id |-> id]
Unconnected == [k |-> "Unconnected", id |-> 0]
Placeholder == [k |-> "Placeholder", id |-> 0]

\* Wire.__init__
Wire(wire_type, producer, node_index) ==
    [wire_type |-> wire_type, producer |-> producer, node_index |-> node_index]

NoInputs == [p \in {} |-> 0]
NoExpr == Num(0)
\* ComponentWrapper.__init__ and the properties of the inner component the
\* builder reads: value (ConstantNumber.value_property, the epsilon of an
\* Equal, the increment of an UpDownCounter), min and max (Clamp, Threshold,
\* UpDownCounter), clamp and reset (UpDownCounter), start_channel (composite
\* writes), function (the text of a fused function) and name (properties).
ComponentWrapper(kind, inputs) ==
    [kind |-> kind, inputs |-> inputs, component_id |-> -1,
     optimize |-> TRUE, force_property |-> FALSE,
     function |-> NoExpr, value |-> 0, min |-> 0, max |-> 0,
     clamp |-> FALSE, reset |-> 0, start_channel |-> 0, name |-> ""]

\* A Wire made by Wire.to for an absent input (None, or False on a Boolean
\* port) is held by that one input slot and its producer is never reassigned
\* (the optimizer reassigns only producers that are ComponentWrappers), so
\* the heap keeps one such wire per signal type: wires 1, 2 and 3.
UnconnectedWire(wire_type) ==
    CASE wire_type = "Number" -> 1
      [] wire_type = "Boolean" -> 2
      [] OTHER -> 3
EmptyHeap ==
    [comps |-> <<>>,
     wires |-> <<Wire("Number", Unconnected, 0), Wire("Boolean", Unconnected, 0),
                 Wire("Composite", Unconnected, 0)>>,
     markers |-> <<>>]

\* The arguments a constructor accepts: a wire, an int, a bool or None.
AWire(w) == [t |-> "wire", v |-> w]
ANum(n) == [t |-> "num", v |-> n]
ABool(b) == [t |-> "bool", v |-> IF b THEN 1 ELSE 0]
ANone == [t |-> "none", v |-> 0]

AllocComp(H, c) == [H EXCEPT !.comps = Append(@, c)]
AllocWire(H, w) == [H EXCEPT !.wires = Append(@, w)]
LastComp(H) == Len(H.comps)
LastWire(H) == Len(H.wires)

\* What a constructor returns: the heap with the wire made last, or an
\* exception (err) that leaves the heap as it was.
Made(H) == [h |-> H, w |-> LastWire(H), err |-> FALSE]
Failed(H) == [h |-> H, w |-> 0, err |-> TRUE]
\* Wire(signal_type, producer)
NewWire(H, wire_type, producer) ==
    Made(AllocWire(H, Wire(wire_type, producer, 0)))
\* ComponentWrapper(...) and the Wire of it
NewComponentWire(H, c, wire_type) ==
    NewWire(AllocComp(H, c), wire_type, CW(LastComp(H) + 1))

\* Wire.to: the wire itself when its type is the port's, a new ConstantOn for
\* True, Unconnected for False and None, a new ConstantNumber for a number;
\* everything else is a TypeError (err).
To(H, signal_type, arg) ==
    IF arg.t = "wire"
      THEN [h |-> H, w |-> arg.v,
            err |-> H.wires[arg.v].wire_type # signal_type]
    ELSE IF signal_type = "Boolean" /\ arg.t = "bool"
      THEN IF arg.v = 1
             THEN NewComponentWire(H, ComponentWrapper("ConstantOn", NoInputs),
                                   "Boolean")
             ELSE [h |-> H, w |-> UnconnectedWire("Boolean"), err |-> FALSE]
    ELSE IF signal_type = "Number" /\ arg.t \in {"num", "bool"}
      \* isinstance(True, int) holds in Python
      THEN NewComponentWire(H, [ComponentWrapper("ConstantNumber", NoInputs)
                                  EXCEPT !.value = arg.v], "Number")
    ELSE IF arg.t = "none"
      THEN [h |-> H, w |-> UnconnectedWire(signal_type), err |-> FALSE]
    ELSE Failed(H)

RECURSIVE ToAll(_, _, _)
\* The port at the head of ports has been given the wire r.w.
ToRest(H, ports, ins, r) ==
    IF r.err THEN [h |-> H, ins |-> ins, err |-> TRUE]
    ELSE ToAll(r.h, Tail(ports), ins @@ (Head(ports)[1] :> r.w))
\* The input dictionary of a constructor: Wire.to on each port in turn.
\* ports is a sequence of <<port, signal type, argument>>.
ToAll(H, ports, ins) ==
    IF ports = <<>> THEN [h |-> H, ins |-> ins, err |-> FALSE]
    ELSE ToRest(H, ports, ins, To(H, Head(ports)[2], Head(ports)[3]))

\* The ComponentWrapper over the inputs r.ins, and its Wire.
Wrap(H, proto, wire_type, r) ==
    IF r.err THEN Failed(H)
    ELSE NewComponentWire(r.h, [proto EXCEPT !.inputs = r.ins], wire_type)
\* A constructor of components.py: the inputs through Wire.to, then the
\* ComponentWrapper, then the Wire returned.  proto carries the properties.
Construct(H, proto, ports, wire_type) ==
    Wrap(H, proto, wire_type, ToAll(H, ports, NoInputs))

Proto(kind) == ComponentWrapper(kind, NoInputs)
AB(a, b) == <<<<"a_input", "Number", a>>, <<"b_input", "Number", b>>>>
BoolAB(a, b) == <<<<"a_input", "Boolean", a>>, <<"b_input", "Boolean", b>>>>

\* components.py
input(H, signal_type) ==
    NewWire([H EXCEPT !.markers = Append(@, [component_id |-> -1])],
            signal_type, IP(Len(H.markers) + 1))
unconnected(H, signal_type) == NewWire(H, signal_type, Unconnected)
placeholder(H, signal_type) == NewWire(H, signal_type, Placeholder)
add(H, a, b) == Construct(H, Proto("Add"), AB(a, b), "Number")
sub(H, a, b) == Construct(H, Proto("Subtract"), AB(a, b), "Number")
mul(H, a, b) == Construct(H, Proto("Multiply"), AB(a, b), "Number")
\* div returns two wires of one ComponentWrapper: the quotient and, at
\* node_index 1, the Boolean divide-by-zero output, which is the wire r.w.
SecondOutput(r) ==
    IF r.err THEN r
    ELSE Made(AllocWire(r.h, Wire("Boolean", r.h.wires[r.w].producer, 1)))
div(H, a, b) == SecondOutput(Construct(H, Proto("Divide"), AB(a, b), "Number"))
abs(H, a) ==
    Construct(H, Proto("Abs"), <<<<"number_input", "Number", a>>>>, "Number")
clamp(H, a, min_value, max_value) ==
    Construct(H, [Proto("Clamp") EXCEPT !.min = min_value, !.max = max_value],
              <<<<"number_input", "Number", a>>>>, "Number")
constant_number(H, value) ==
    Construct(H, [Proto("ConstantNumber") EXCEPT !.value = value], <<>>, "Number")
delta(H, a) ==
    Construct(H, Proto("Delta"), <<<<"value_input", "Number", a>>>>, "Number")
equal(H, a, b, epsilon) ==
    Construct(H, [Proto("Equal") EXCEPT !.value = epsilon], AB(a, b), "Boolean")
greater_than(H, a, b) == Construct(H, Proto("GreaterThan"), AB(a, b), "Boolean")
less_than(H, a, b) == Construct(H, Proto("LessThan"), AB(a, b), "Boolean")
threshold(H, a, min_value, max_value) ==
    Construct(H, [Proto("Threshold") EXCEPT !.min = min_value, !.max = max_value],
              <<<<"number_input", "Number", a>>>>, "Boolean")
and_(H, a, b) == Construct(H, Proto("AND"), BoolAB(a, b), "Boolean")
or_(H, a, b) == Construct(H, Proto("OR"), BoolAB(a, b), "Boolean")
xor(H, a, b) == Construct(H, Proto("XOR"), BoolAB(a, b), "Boolean")
nand(H, a, b) == Construct(H, Proto("NAND"), BoolAB(a, b), "Boolean")
nor(H, a, b) == Construct(H, Proto("NOR"), BoolAB(a, b), "Boolean")
not_(H, a) ==
    Construct(H, Proto("NOT"), <<<<"a_input", "Boolean", a>>>>, "Boolean")
constant_on(H) == Construct(H, Proto("ConstantOn"), <<>>, "Boolean")
\* function and boolean_function take x, y, z, w, a, b, c, d: args is the
\* sequence of the eight arguments.
function(H, function_string, args) ==
    Construct(H, [Proto("ArithmeticFunction8In") EXCEPT !.function = function_string],
              [i \in 1..8 |-> <<FunctionPorts[i], "Number", args[i]>>], "Number")
boolean_function(H, function_string, args) ==
    Construct(H, [Proto("BooleanFunction8In") EXCEPT !.function = function_string],
              [i \in 1..8 |-> <<FunctionPorts[i], "Boolean", args[i]>>], "Boolean")
numerical_switchbox(H, on_value, off_value, switch) ==
    Construct(H, Proto("NumericalSwitchbox"),
              <<<<"on_value_input", "Number", on_value>>,
                <<"off_value_input", "Number", off_value>>,
                <<"switch_signal_input", "Boolean", switch>>>>, "Number")
property_number(H, value, name) ==
    Construct(H, [Proto("PropertyNumber") EXCEPT !.value = value,
                                                  !.name = name],
              <<>>, "Number")
property_toggle(H, value, name) ==
    Construct(H, [Proto("PropertyToggle") EXCEPT !.value = value,
                                                  !.name = name],
              <<>>, "Boolean")

\* The arguments of function(): the given ones, then None.
Args8(given) == [i \in 1..8 |-> IF i <= Len(given) THEN given[i] ELSE ANone]

\* --------------------------------------------------------------- optimizer
IsFunction(c) == c.kind \in {"ArithmeticFunction8In", "BooleanFunction8In"}

\* The body optimize_component gives each primitive it rewrites.
FunctionOf(c) ==
    CASE c.kind = "Add" -> Op2("+", Var("x"), Var("y"))
      [] c.kind = "Subtract" -> Op2("-", Var("x"), Var("y"))
      [] c.kind = "Multiply" -> Op2("*", Var("x"), Var("y"))
      [] c.kind = "Divide" -> Op2("/", Var("x"), Var("y"))
      [] c.kind = "Abs" -> Op1("abs", Var("x"))
      [] c.kind = "Clamp" -> Op3("clamp", Var("x"), Num(c.min), Num(c.max))
      [] c.kind = "ConstantNumber" -> Num(c.value)
      [] c.kind = "ConstantOn" -> BoolLit(1)
      [] c.kind = "AND" -> Op2("&", Var("x"), Var("y"))
      [] c.kind = "NAND" -> Op1("!", Op2("&", Var("x"), Var("y")))
      [] c.kind = "OR" -> Op2("|", Var("x"), Var("y"))
      [] c.kind = "NOR" -> Op1("!", Op2("|", Var("x"), Var("y")))
      [] c.kind = "XOR" -> Op2("^", Var("x"), Var("y"))
      [] c.kind = "NOT" -> Op1("!", Var("x"))
      [] OTHER -> c.function

\* The positional arguments optimize_component passes to comp.function or
\* comp.boolean_function: the ports of the primitive, in order.
ArgPorts(c) ==
    CASE c.kind \in {"Add", "Subtract", "Multiply", "Divide", "AND", "NAND",
                     "OR", "NOR", "XOR"} -> <<"a_input", "b_input">>
      [] c.kind \in {"Abs", "Clamp"} -> <<"number_input">>
      [] c.kind = "NOT" -> <<"a_input">>
      [] IsFunction(c) -> FunctionPorts
      [] OTHER -> <<>>

RewritesToNumber(c) ==
    c.kind \in {"ArithmeticFunction8In", "Add", "Subtract", "Multiply",
                "Divide", "Abs", "Clamp", "ConstantNumber"}
RewritesToBoolean(c) ==
    c.kind \in {"BooleanFunction8In", "ConstantOn", "AND", "NAND", "OR", "NOR",
                "XOR", "NOT"}

\* optimize_component: a new fused function over the same input wires, or
\* None (c = 0).  The Wire that comp.function returns is dropped; only its
\* producer is kept.
NotOptimized(H) == [h |-> H, c |-> 0, err |-> FALSE]
Fused(H, r) ==
    IF r.err THEN [h |-> H, c |-> 0, err |-> TRUE]
    ELSE [h |-> [r.h EXCEPT !.wires = H.wires], c |-> LastComp(r.h),
          err |-> FALSE]
FusedArgs(c) ==
    Args8([i \in 1..Len(ArgPorts(c)) |-> AWire(c.inputs[ArgPorts(c)[i]])])
OptimizeWrapped(H, c) ==
    IF RewritesToNumber(c)
      THEN Fused(H, function(H, FunctionOf(c), FusedArgs(c)))
    ELSE IF RewritesToBoolean(c)
      THEN Fused(H, boolean_function(H, FunctionOf(c), FusedArgs(c)))
    ELSE NotOptimized(H)
optimize_component(H, component) == OptimizeWrapped(H, H.comps[component])

\* get_input_count
get_input_count(H, component) ==
    Cardinality({p \in DOMAIN H.comps[component].inputs :
        H.wires[H.comps[component].inputs[p]].producer.k # "Unconnected"})

\* any(w.producer is raw_optimized for w in raw_optimized.inputs.values())
SelfReferencing(H, component) ==
    \E p \in DOMAIN H.comps[component].inputs :
        H.wires[H.comps[component].inputs[p]].producer = CW(component)

\* list.remove(name)
RECURSIVE Remove(_, _)
Remove(seq, name) ==
    IF seq = <<>> THEN <<>>
    ELSE IF Head(seq) = name THEN Tail(seq)
    ELSE <<Head(seq)>> \o Remove(Tail(seq), name)

\* A frame of find_optimizations: its argument, its locals and where it is.
\*   enter        at the first line
\*   loop         in the loop over optimized.inputs, before the input at idx
\*   loop_ret     the call of line 402 for the input at idx has returned
\*   rewrite_ret  the call of line 381 has returned
Frame(component) ==
    [component |-> component, pc |-> "enter", optimized |-> 0, idx |-> 1,
     input_count |-> 0, potential_optimizations |-> <<>>,
     present_inputs |-> NoInputs, available_names |-> Names,
     self_references |-> {}]

\* The condition of lines 404-411 on the input whose producer is producer,
\* raw_optimized being raw (0: None).
IsCandidate(H, in_progress, producer, raw) ==
    /\ producer.k = "ComponentWrapper"
    /\ H.comps[producer.id].optimize
    /\ producer.id \notin in_progress
    /\ raw # 0
    /\ ~SelfReferencing(H, raw)

\* Lines 412-435 for the input name, optimized_input being oi.c (0: None).
Classify(H, f, name, input_wire, oi) ==
    IF oi.c # 0
      THEN [h |-> oi.h, err |-> oi.err,
            f |-> [f EXCEPT !.idx = @ + 1, !.pc = "loop",
                     !.potential_optimizations = Append(@,
                        [cost |-> get_input_count(oi.h, oi.c) - 1,
                         name |-> name, optimized_input |-> oi.c,
                         input_wire |-> input_wire])]]
    ELSE IF H.wires[input_wire].producer.k # "Unconnected"
      THEN [h |-> H, err |-> oi.err,
            f |-> [f EXCEPT !.idx = @ + 1, !.pc = "loop",
                     !.available_names = Remove(@, PortVar(name)),
                     !.present_inputs =
                         [w \in DOMAIN @ \cup {input_wire} |->
                             IF w = input_wire THEN PortVar(name) ELSE @[w]]]]
    ELSE [h |-> [H EXCEPT !.comps[f.optimized].function =
                     ReplaceTok(@, Var(PortVar(name)),
                         IF H.wires[input_wire].wire_type = "Number"
                           THEN Num(0) ELSE BoolLit(0))],
          err |-> oi.err,
          f |-> [f EXCEPT !.idx = @ + 1, !.pc = "loop"]]

\* Lines 403-435 for the input at f.idx, raw_optimized being raw (0: None).
OptimizeInput(H, in_progress, f, raw, name, input_wire) ==
    Classify(H, f, name, input_wire,
             IF IsCandidate(H, in_progress, H.wires[input_wire].producer, raw)
               THEN optimize_component(H, raw)
             ELSE NotOptimized(H))
ProcessInput(H, in_progress, f, raw) ==
    OptimizeInput(H, in_progress, f, raw, FunctionPorts[f.idx],
                  H.comps[f.optimized].inputs[FunctionPorts[f.idx]])

\* A loop that makes the recursive call also for a producer in progress.
CallsInProgress(H, in_progress, f) ==
    H.wires[H.comps[f.optimized].inputs[FunctionPorts[f.idx]]].producer.k
        = "ComponentWrapper"

\* Line 398-401: the input at f.idx is optimized by a recursive call first.
NeedsCall(H, in_progress, f) ==
    LET producer == H.wires[H.comps[f.optimized].inputs[FunctionPorts[f.idx]]].producer
    IN producer.k = "ComponentWrapper" /\ producer.id \notin in_progress

RECURSIVE SkipInputs(_, _)
\* The iterations of the loop that make no recursive call, up to the next
\* input that makes one or to the end of the loop (idx = 9).  s holds the
\* heap and the frame.
SkipInputs(in_progress, s) ==
    IF s.f.idx > Len(FunctionPorts) \/ NeedsCall(s.h, in_progress, s.f) THEN s
    ELSE SkipInputs(in_progress, ProcessInput(s.h, in_progress, s.f, 0))

RECURSIVE SortedInsert(_, _)
SortedInsert(seq, p) ==
    IF seq = <<>> THEN <<p>>
    ELSE IF Head(seq).cost <= p.cost
      THEN <<Head(seq)>> \o SortedInsert(Tail(seq), p)
    ELSE <<p>> \o seq
RECURSIVE SortByCost(_)
\* potential_optimizations.sort(key=lambda x: x[0]): a stable sort
SortByCost(seq) ==
    IF seq = <<>> THEN <<>>
    ELSE SortedInsert(SortByCost(SubSeq(seq, 1, Len(seq) - 1)), seq[Len(seq)])

RECURSIVE SumCost(_)
SumCost(seq) == IF seq = <<>> THEN 0 ELSE Head(seq).cost + SumCost(Tail(seq))

\* A budget loop that drops no candidate.
NeverOverBudget(pots, input_count) == FALSE

\* The condition of the budget loop (line 439).
OverBudget(pots, input_count) == SumCost(pots) + input_count > InputBudget

RECURSIVE EnforceBudget(_, _, _)
\* Lines 439-442: drop the most expensive candidates while the inputs would
\* exceed the budget; a dropped candidate's port keeps its name.
EnforceBudget(pots, available_names, input_count) ==
    IF ~OverBudget(pots, input_count)
      THEN [pots |-> pots, available_names |-> available_names, err |-> FALSE]
    ELSE IF pots = <<>>
      THEN [pots |-> pots, available_names |-> available_names, err |-> TRUE]
    ELSE EnforceBudget(SubSeq(pots, 1, Len(pots) - 1),
                       Remove(available_names, PortVar(pots[Len(pots)].name)),
                       input_count)

RECURSIVE RenameInner(_, _, _, _)
\* Lines 456-464: the variables of the connected inputs of a candidate become
\* the placeholder tokens f"{name}_{var}"; a variable whose input is
\* Unconnected is left as it is.  s holds the body and the replacements.
RenameOne(H, cand, s, inner_wire, var) ==
    IF H.wires[inner_wire].producer.k # "Unconnected"
      THEN [function |-> ReplaceTok(s.function, Var(var), Tmp(cand.name, var)),
            input_replacements |->
                Append(s.input_replacements,
                       [tok |-> Tmp(cand.name, var), wire |-> inner_wire])]
    ELSE s
RenameInner(H, cand, i, s) ==
    IF i > Len(FunctionPorts) THEN s
    ELSE RenameInner(H, cand, i + 1,
            RenameOne(H, cand, s,
                      H.comps[cand.optimized_input].inputs[FunctionPorts[i]],
                      PortVar(FunctionPorts[i])))

RECURSIVE InlineCandidates(_, _, _)
\* Lines 465-468: the candidate's port is disconnected and its renamed body
\* r.function recorded as the replacement of the port's variable.
Inline(s, optimized, cand, r) ==
    [h |-> [s.h EXCEPT !.comps[optimized].inputs[cand.name] =
               UnconnectedWire(s.h.wires[cand.input_wire].wire_type)],
     replacements |->
         Append(s.replacements, [old |-> PortVar(cand.name), new |-> r.function]),
     input_replacements |-> r.input_replacements]
\* Lines 449-468, for each candidate that is left.  s holds the heap, the
\* replacements and the input replacements.
InlineCandidates(optimized, pots, s) ==
    IF pots = <<>> THEN s
    ELSE InlineCandidates(optimized, Tail(pots),
            Inline(s, optimized, Head(pots),
                   RenameInner(s.h, Head(pots), 1,
                       [function |->
                            s.h.comps[Head(pots).optimized_input].function,
                        input_replacements |-> s.input_replacements])))

RECURSIVE ApplyReplacements(_, _)
\* Lines 472-473
ApplyReplacements(fn, replacements) ==
    IF replacements = <<>> THEN fn
    ELSE ApplyReplacements(
            ReplaceTok(fn, Var(Head(replacements).old), Head(replacements).new),
            Tail(replacements))

\* The port of new_name already holds another connected wire when line 482
\* assigns wire to it.
Rebinds(H, f, wire, new_name) ==
    /\ H.comps[f.optimized].inputs[VarPort(new_name)] # wire
    /\ H.wires[H.comps[f.optimized].inputs[VarPort(new_name)]].producer.k
           # "Unconnected"

\* Lines 482-485: the wire is bound to the port of new_name, and a wire the
\* component itself produced is now produced by optimized.
BindInput(H, f, wire, new_name) ==
    [H EXCEPT !.comps[f.optimized].inputs[VarPort(new_name)] = wire,
              !.wires[wire].producer =
                  IF @ = CW(f.component) THEN CW(f.optimized) ELSE @]

RECURSIVE BindInputs(_, _, _)
\* Lines 476-485 for the replacement ir, which takes new_name.
BindNamed(f, irs, s, ir, new_name) ==
    BindInputs(f, Tail(irs),
        [h |-> BindInput(s.h, f, ir.wire, new_name),
         function |-> ReplaceTok(s.function, ir.tok, Var(new_name)),
         present_inputs |->
             [w \in DOMAIN s.present_inputs \cup {ir.wire} |->
                 IF w = ir.wire THEN new_name ELSE s.present_inputs[w]],
         available_names |->
             IF ir.wire \in DOMAIN s.present_inputs THEN s.available_names
             ELSE Tail(s.available_names),
         rebound |-> s.rebound \/ Rebinds(s.h, f, ir.wire, new_name),
         err |-> FALSE])
\* The binding that never looks a wire up: every placeholder token gets the
\* next free name.
BindInputsAfresh(f, irs, s) ==
    IF irs = <<>> THEN s
    ELSE IF s.available_names = <<>> THEN [s EXCEPT !.err = TRUE]
    ELSE BindNamed(f, irs, s, Head(irs), Head(s.available_names))
\* Lines 475-485: each placeholder token gets the name already bound to its
\* wire, or the next free name; popping from the empty pool is an IndexError.
\* s holds the heap, the body, present_inputs and available_names, and
\* whether a port that held a wire was given another (rebound).
BindInputs(f, irs, s) ==
    IF irs = <<>> THEN s
    ELSE IF Head(irs).wire \in DOMAIN s.present_inputs
      THEN BindNamed(f, irs, s, Head(irs), s.present_inputs[Head(irs).wire])
    ELSE IF s.available_names = <<>> THEN [s EXCEPT !.err = TRUE]
    ELSE BindNamed(f, irs, s, Head(irs), Head(s.available_names))

\* Lines 488-489: the self-references now point to optimized.
UpdateSelfReferences(H, f) ==
    [H EXCEPT !.wires =
        [w \in DOMAIN @ |->
            IF \E name \in f.self_references :
                   H.comps[f.optimized].inputs[name] = w
              THEN [@[w] EXCEPT !.producer = CW(f.optimized)]
            ELSE @[w]]]

\* Lines 487-495: the body is stored and optimized returned, or the pool of
\* names ran out.
Finish(f, bi) ==
    IF bi.err
      THEN [h |-> bi.h, result |-> 0, rebound |-> bi.rebound, err |-> TRUE]
    ELSE [h |-> [UpdateSelfReferences(bi.h, f)
                   EXCEPT !.comps[f.optimized].function = bi.function],
          result |-> f.optimized, rebound |-> bi.rebound, err |-> FALSE]
\* Lines 470-485 after the candidates have been inlined (ic).
Bind(f, b, ic) ==
    Finish(f,
        BindInputs(f, ic.input_replacements,
            [h |-> ic.h,
             function |-> ApplyReplacements(ic.h.comps[f.optimized].function,
                                            ic.replacements),
             present_inputs |-> f.present_inputs,
             available_names |-> b.available_names,
             rebound |-> FALSE,
             err |-> FALSE]))
\* Lines 443-468 after the budget loop (b).
Inlined(H, f, b) ==
    IF b.err THEN [h |-> H, result |-> 0, rebound |-> FALSE, err |-> TRUE]
    ELSE IF b.pots = <<>>
      THEN [h |-> H, result |-> f.component, rebound |-> FALSE, err |-> FALSE]
    ELSE Bind(f, b,
              InlineCandidates(f.optimized, b.pots,
                  [h |-> H, replacements |-> <<>>, input_replacements |-> <<>>]))
\* Lines 437-495: what find_optimizations does after the loop.  result is
\* the component returned and recorded in optimized_components.
Merge(H, f) ==
    Inlined(H, f, EnforceBudget(SortByCost(f.potential_optimizations),
                                f.available_names, f.input_count))

\* ------------------------------------------- numerical-boolean lowering
\* get_input: the literal of a ConstantNumber, "0" for Unconnected, else the
\* token of the wire, which joins the used wires.  A port the component does
\* not have is a KeyError (err).
get_input(H, inputs, name) ==
    IF name \notin DOMAIN inputs
      THEN [fn |-> NoExpr, wires |-> {}, err |-> TRUE]
    ELSE LET producer == H.wires[inputs[name]].producer IN
         IF producer.k = "ComponentWrapper"
              /\ H.comps[producer.id].kind = "ConstantNumber"
           THEN [fn |-> Num(H.comps[producer.id].value), wires |-> {},
                 err |-> FALSE]
         ELSE IF producer.k = "Unconnected"
           THEN [fn |-> Num(0), wires |-> {}, err |-> FALSE]
         ELSE [fn |-> WireTok(inputs[name]), wires |-> {inputs[name]},
               err |-> FALSE]

\* The results of the lowering: None, an error, or (true_func, used_wires).
LowerNone(H) ==
    [h |-> H, ok |-> FALSE, fn |-> NoExpr, wires |-> {}, err |-> FALSE]
LowerErr(H) ==
    [h |-> H, ok |-> FALSE, fn |-> NoExpr, wires |-> {}, err |-> TRUE]
Lowered(H, fn, used_wires) ==
    [h |-> H, ok |-> TRUE, fn |-> fn, wires |-> used_wires, err |-> FALSE]
\* f"(1-{true_func})" around a result
OneMinus(r) == IF r.ok THEN [r EXCEPT !.fn = Op2("-", Num(1), @)] ELSE r
\* f"abs({true_a}-{true_b})" around a result
AbsOf(r) == IF r.ok THEN [r EXCEPT !.fn = Op1("abs", @)] ELSE r
\* f"(({e})/2)"
Half(e) == Op1("half", e)

\* wire_to_id(switch_res), {switch_res}
SwitchRead(H, r) ==
    IF r.err THEN LowerErr(H) ELSE Lowered(r.h, WireTok(r.w), {r.w})
\* The fallback without the test of first_iteration: the producer is read
\* through a new switchbox at the first level as well.
SwitchFallbackAtRoot(H, input_wire, first_iteration) ==
    SwitchRead(H, numerical_switchbox(H, ANum(1), ANum(0), AWire(input_wire)))
\* Lines 105-109 and 167-170: below the first level a producer that is not
\* recognized is read through a new numerical_switchbox(1, 0, input_wire).
SwitchFallback(H, input_wire, first_iteration) ==
    IF first_iteration THEN LowerNone(H)
    ELSE SwitchRead(H, numerical_switchbox(H, ANum(1), ANum(0),
                                           AWire(input_wire)))

RECURSIVE inner_optimize_numerical_boolean(_, _, _)
\* The common part of process_and, process_or and process_xor: both inputs
\* are lowered, a first, before either result is looked at.
Combine(H, o, input_a, input_b) ==
    IF input_a.err THEN LowerErr(H)
    ELSE IF input_b.err THEN LowerErr(input_a.h)
    ELSE IF ~input_a.ok \/ ~input_b.ok THEN LowerNone(input_b.h)
    ELSE Lowered(input_b.h, Op2(o, input_a.fn, input_b.fn),
                 input_a.wires \cup input_b.wires)
LowerSecond(H, inputs, o, input_a) ==
    Combine(H, o, input_a,
            inner_optimize_numerical_boolean(input_a.h, inputs["b_input"], FALSE))
ProcessBinary(H, inputs, o) ==
    LowerSecond(H, inputs, o,
                inner_optimize_numerical_boolean(H, inputs["a_input"], FALSE))
process_and(H, inputs) == ProcessBinary(H, inputs, "*")
process_or(H, inputs) == ProcessBinary(H, inputs, "max")
process_xor(H, inputs) == AbsOf(ProcessBinary(H, inputs, "-"))
process_not(H, inputs) ==
    OneMinus(inner_optimize_numerical_boolean(H, inputs["a_input"], FALSE))

\* The bodies of the comparators of component c over the texts a and b.
EqualBody(c, a, b) ==
    IF c.value = 0
      THEN Half(Op2("+", Op1("sgn", Op2("-", a, b)), Op1("sgn", Op2("-", b, a))))
    ELSE Half(Op2("-", Num(1),
              Op1("sgn", Op2("-", Op1("abs", Op2("-", a, b)), Num(c.value)))))
GreaterThanBody(c, a, b) == Half(Op2("-", Num(1), Op1("sgn", Op2("-", b, a))))
LessThanBody(c, a, b) == Half(Op2("-", Num(1), Op1("sgn", Op2("-", a, b))))
ThresholdBody(c, a, b) ==
    Op2("*", Half(Op2("+", Op1("sgn", Op2("-", a, Num(c.min))), Num(1))),
             Half(Op2("+", Op1("sgn", Op2("-", Num(c.max), a)), Num(1))))
\* The lowering of a comparator over get_input of two ports (a and b).
Compare(H, c, a, b, Body(_, _, _)) ==
    IF a.err \/ b.err THEN LowerErr(H)
    ELSE Lowered(H, Body(c, a.fn, b.fn), a.wires \cup b.wires)

\* Lines 114-165: the lowering of an optimizable component of a kind the
\* lowering recognizes.
LoweredKinds ==
    {"Equal", "GreaterThan", "LessThan", "Threshold", "NOT", "AND", "NAND", "OR",
     "NOR", "XOR", "ConstantOn"}
LowerComponent(H, c, a, b) ==
    CASE c.kind = "Equal" -> Compare(H, c, a, b, EqualBody)
      [] c.kind = "GreaterThan" -> Compare(H, c, a, b, GreaterThanBody)
      [] c.kind = "LessThan" -> Compare(H, c, a, b, LessThanBody)
      [] c.kind = "Threshold" -> Compare(H, c, a, a, ThresholdBody)
      [] c.kind = "NOT" -> process_not(H, c.inputs)
      [] c.kind = "AND" -> process_and(H, c.inputs)
      [] c.kind = "NAND" -> OneMinus(process_and(H, c.inputs))
      [] c.kind = "OR" -> process_or(H, c.inputs)
      [] c.kind = "NOR" -> OneMinus(process_or(H, c.inputs))
      [] c.kind = "XOR" -> process_xor(H, c.inputs)
      [] OTHER -> Lowered(H, Num(1), {})

inner_optimize_numerical_boolean(H, input_wire, first_iteration) ==
    LET producer == H.wires[input_wire].producer IN
    IF producer.k = "Unconnected" THEN Lowered(H, Num(0), {})
    ELSE IF producer.k = "ComponentWrapper" /\ ~H.comps[producer.id].optimize
      THEN LowerNone(H)
    ELSE IF producer.k = "ComponentWrapper"
            /\ H.comps[producer.id].kind \in LoweredKinds
      THEN LowerComponent(H, H.comps[producer.id],
                          get_input(H, H.comps[producer.id].inputs, "a_input"),
                          get_input(H, H.comps[producer.id].inputs, "b_input"))
    ELSE SwitchFallback(H, input_wire, first_iteration)

RECURSIVE RenameWires(_, _, _)
\* true_func.replace(wire_to_id(wire_), name) for the wires in iteration
\* order: the i-th wire of order gets the i-th name.
RenameWires(fn, order, i) ==
    IF i > Len(order) THEN fn
    ELSE RenameWires(ReplaceTok(fn, WireTok(order[i]), Var(Names[i])), order,
                     i + 1)

RECURSIVE Orders(_)
\* The orders in which a Python set of wires can be iterated.
Orders(S) ==
    IF S = {} THEN {<<>>}
    ELSE UNION {{<<w>> \o o : o \in Orders(S \ {w})} : w \in S}

\* Lines 183-195 on the result r of the lowering.
NameWires(r, extra_count, order) ==
    IF r.err \/ ~r.ok THEN r
    ELSE IF Cardinality(r.wires) + extra_count > 8 THEN LowerNone(r.h)
    ELSE [r EXCEPT !.fn = RenameWires(r.fn, order, 1)]
\* optimize_numerical_boolean; order is the iteration order of used_wires.
optimize_numerical_boolean(H, input_wire, extra_count, order) ==
    NameWires(inner_optimize_numerical_boolean(H, input_wire, TRUE),
              extra_count, order)

\* ----------------------------------------------- the rewrites of line 293
\* components.py: up_down_counter and the composite writes.  channels maps
\* 1..32 to the argument given for channelN.
up_down_counter(H, up, down, reset, increment, reset_value, min_value,
                max_value, clamp_) ==
    Construct(H, [Proto("UpDownCounter") EXCEPT !.min = min_value,
                     !.max = max_value, !.clamp = clamp_, !.value = increment,
                     !.reset = reset_value],
              <<<<"up_input", "Boolean", up>>, <<"down_input", "Boolean", down>>,
                <<"reset_input", "Boolean", reset>>>>, "Number")
CompositeWrite(H, kind, signal_type, composite, channels, dynamic_channel) ==
    Construct(H, [Proto(kind) EXCEPT !.start_channel =
                     IF dynamic_channel.t = "none" THEN 1 ELSE 0],
              <<<<"composite_signal_input", "Composite", composite>>,
                <<"start_channel_input", "Number", dynamic_channel>>>>
              \o [i \in 1..NumChannels |->
                     <<ChannelPort(i), signal_type, channels[i]>>],
              "Composite")
composite_write_number(H, composite, channels, dynamic_channel) ==
    CompositeWrite(H, "CompositeWriteNumber", "Number", composite, channels,
                   dynamic_channel)
composite_write_boolean(H, composite, channels, dynamic_channel) ==
    CompositeWrite(H, "CompositeWriteBoolean", "Boolean", composite, channels,
                   dynamic_channel)
NoChannels == [i \in 1..NumChannels |-> ANone]

\* What a rewrite gives: None (optimized = 0), an exception, or the
\* producer of the function f built on the heap H, whose Wire is dropped.
NoRewrite(H) == [h |-> H, optimized |-> 0, err |-> FALSE]
RewriteFailed(H) == [h |-> H, optimized |-> 0, err |-> TRUE]
RewrittenTo(H, f) ==
    IF f.err THEN RewriteFailed(H)
    ELSE [h |-> [f.h EXCEPT !.wires = H.wires], optimized |-> LastComp(f.h),
          err |-> FALSE]

\* f"({true_func})*{on_name}+({false_func})*{off_name}"
SwitchboxBody(fn, n) ==
    Op2("+", Op2("*", fn, Var(Names[n + 1])),
             Op2("*", Op2("-", Num(1), fn), Var(Names[n + 2])))
\* **{on_name: on_prod, off_name: off_prod, **wire_associations}
SwitchboxArgs(inputs, order) ==
    [i \in 1..8 |->
        IF i <= Len(order) THEN AWire(order[i])
        ELSE IF i = Len(order) + 1 THEN AWire(inputs["on_value_input"])
        ELSE IF i = Len(order) + 2 THEN AWire(inputs["off_value_input"])
        ELSE ANone]
\* Lines 302-310 on the result r of optimize_numerical_boolean.
SwitchboxFunction(H, inputs, order, r) ==
    IF r.err THEN RewriteFailed(H)
    ELSE IF ~r.ok THEN NoRewrite(r.h)
    ELSE RewrittenTo(r.h, function(r.h, SwitchboxBody(r.fn, Len(order)),
                                   SwitchboxArgs(inputs, order)))
\* Lines 295-310: a switchbox whose switch signal lowers becomes the function
\* (T)*on + (1-T)*off.
RewriteSwitchbox(H, component, order) ==
    SwitchboxFunction(H, H.comps[component].inputs, order,
        optimize_numerical_boolean(
            H, H.comps[component].inputs["switch_signal_input"], 2, order))

\* Lines 312-316: up, down and reset are lowered in turn.
Signals(H, up, down, reset) ==
    [h |-> IF up.err \/ down.err \/ reset.err THEN H ELSE reset.h,
     err |-> up.err \/ down.err \/ reset.err,
     ok |-> up.ok /\ down.ok /\ reset.ok,
     all_wires |-> up.wires \cup down.wires \cup reset.wires,
     up_func |-> up.fn, down_func |-> down.fn, reset_func |-> reset.fn]
LowerReset(H, c, up, down) ==
    Signals(H, up, down,
            inner_optimize_numerical_boolean(down.h, c.inputs["reset_input"],
                                             FALSE))
LowerDown(H, c, up) ==
    LowerReset(H, c, up,
               inner_optimize_numerical_boolean(up.h, c.inputs["down_input"],
                                                FALSE))
LowerSignals(H, c) ==
    LowerDown(H, c,
              inner_optimize_numerical_boolean(H, c.inputs["up_input"], FALSE))

\* f"({self_name}+{increment_value}*{up_func}-{increment_value}*{down_func})",
\* clamped where the counter clamps
CounterValue(c, up_func, down_func, self_name) ==
    LET value == Op2("-", Op2("+", Var(self_name),
                                   Op2("*", Num(c.value), up_func)),
                          Op2("*", Num(c.value), down_func))
    IN IF c.clamp THEN Op3("clamp", value, Num(c.min), Num(c.max)) ELSE value
\* f"(1-{reset_func})*{value}+{reset_func}*{min_value}"
CounterBody(c, reset_func, value) ==
    Op2("+", Op2("*", Op2("-", Num(1), reset_func), value),
             Op2("*", reset_func, Num(c.min)))
CounterArgs(order, result) ==
    [i \in 1..8 |->
        IF i <= Len(order) THEN AWire(order[i])
        ELSE IF i = Len(order) + 1 THEN AWire(result)
        ELSE ANone]
\* result.replace_producer(comp.function(...)); optimized = result.producer
ReplacedBy(result, f) ==
    IF f.err THEN RewriteFailed(result.h)
    ELSE [h |-> [f.h EXCEPT !.wires =
                    [result.h.wires EXCEPT ![result.w].producer =
                                               CW(LastComp(f.h))]],
          optimized |-> LastComp(f.h), err |-> FALSE]
\* Lines 330-350, result being the new placeholder wire
CounterFunction(c, s, order, result) ==
    ReplacedBy(result,
        function(result.h,
            CounterBody(c, RenameWires(s.reset_func, order, 1),
                CounterValue(c, RenameWires(s.up_func, order, 1),
                             RenameWires(s.down_func, order, 1),
                             Names[Len(order) + 1])),
            CounterArgs(order, result.w)))
\* The rewrite with the limit one lower: seven wires are already too many.
CounterRewriteUpToSix(c, s, order) ==
    IF s.err THEN RewriteFailed(s.h)
    ELSE IF ~s.ok \/ Cardinality(s.all_wires) > 6 THEN NoRewrite(s.h)
    ELSE CounterFunction(c, s, order, placeholder(s.h, "Number"))
\* Lines 321-350 on the lowered signals s.
CounterRewrite(c, s, order) ==
    IF s.err THEN RewriteFailed(s.h)
    ELSE IF ~s.ok \/ Cardinality(s.all_wires) > 7 THEN NoRewrite(s.h)
    ELSE CounterFunction(c, s, order, placeholder(s.h, "Number"))
\* Lines 311-351: an up/down counter whose three signals lower becomes a
\* function that reads its own output through a replaced placeholder.
RewriteUpDownCounter(H, component, order) ==
    CounterRewrite(H.comps[component], LowerSignals(H, H.comps[component]),
                   order)

\* len(used_wires) + extra_count > 8 gives None
SwitchboxWires(sw) ==
    IF sw.ok /\ Cardinality(sw.wires) + 2 <= 8 THEN sw.wires ELSE {}
CounterWires(s) ==
    IF ~s.err /\ s.ok /\ Cardinality(s.all_wires) <= 7 THEN s.all_wires ELSE {}
\* The wires the lowering of a switchbox or of an up/down counter collects:
\* the set whose iteration order names the inputs of the rewritten function.
RewriteWires(H, component) ==
    IF H.comps[component].kind = "NumericalSwitchbox"
      THEN SwitchboxWires(inner_optimize_numerical_boolean(
               H, H.comps[component].inputs["switch_signal_input"], TRUE))
    ELSE IF H.comps[component].kind = "UpDownCounter"
      THEN CounterWires(LowerSignals(H, H.comps[component]))
    ELSE {}

IsCompositeWrite(c) ==
    c.kind \in {"CompositeWriteBoolean", "CompositeWriteNumber"}

\* The condition of lines 352-369: a static composite write fed by another
\* optimizable static composite write of the same kind.
ChainsWith(H, component) ==
    LET c == H.comps[component]
        other == H.wires[c.inputs["composite_signal_input"]].producer
    IN /\ IsCompositeWrite(c)
       /\ c.start_channel = 1
       /\ other.k = "ComponentWrapper"
       /\ H.comps[other.id].kind = c.kind
       /\ H.comps[other.id].start_channel = 1
       /\ H.comps[other.id].optimize

\* Lines 370-377: the channels this write leaves Unconnected are taken from
\* the write before it, and so is its composite input.
MergeCompositeWrite(H, component) ==
    LET c == H.comps[component]
        other == H.comps[H.wires[c.inputs["composite_signal_input"]].producer.id]
        channel_ports == {ChannelPort(i) : i \in 1..NumChannels}
    IN [H EXCEPT !.comps[component].inputs =
          [name \in DOMAIN c.inputs |->
             IF name = "composite_signal_input" THEN other.inputs[name]
             ELSE IF name \in channel_ports
                     /\ H.wires[c.inputs[name]].producer.k = "Unconnected"
               THEN other.inputs[name]
             ELSE c.inputs[name]]]

\* Lines 293-377: what find_optimizations tries when optimize_component
\* gives None.  optimized = 0 stands for None.
Rewrite(H, component, order) ==
    LET c == H.comps[component] IN
    IF c.kind = "NumericalSwitchbox" THEN RewriteSwitchbox(H, component, order)
    ELSE IF c.kind = "UpDownCounter"
      THEN RewriteUpDownCounter(H, component, order)
    ELSE IF ChainsWith(H, component)
      THEN [h |-> MergeCompositeWrite(H, component), optimized |-> 0,
            err |-> FALSE]
    ELSE [h |-> H, optimized |-> 0, err |-> FALSE]

\* ------------------------------------------------------------- wire.py
\* Wire.stop_optimization
stop_optimization(H, w) ==
    IF H.wires[w].producer.k = "ComponentWrapper"
      THEN [H EXCEPT !.comps[H.wires[w].producer.id].optimize = FALSE]
    ELSE H

\* Wire.force_property
force_property(H, w) ==
    IF H.wires[w].producer.k = "ComponentWrapper"
      THEN [H EXCEPT !.comps[H.wires[w].producer.id].force_property = TRUE]
    ELSE H

\* Wire.replace_producer
replace_producer(H, w, new_wire) ==
    IF H.wires[w].wire_type # H.wires[new_wire].wire_type
      THEN [h |-> H, err |-> TRUE]
    ELSE [h |-> [H EXCEPT !.wires[w].producer = H.wires[new_wire].producer],
          err |-> FALSE]

\* range(start, stop, step) as a sequence
Range(start, stop, step) ==
    LET n == IF step > 0 THEN (stop - start + step - 1) \div step
             ELSE (start - stop - step - 1) \div (-step)
    IN [i \in 1..(IF n > 0 THEN n ELSE 0) |-> start + (i - 1) * step]

\* An index: an int (slice = FALSE, the int in start) or a slice whose
\* start, stop and step are ints or None.
IntItem(i) == [slice |-> FALSE, start |-> ANum(i), stop |-> ANone, step |-> ANone]
SliceItem(start, stop, step) ==
    [slice |-> TRUE, start |-> start, stop |-> stop, step |-> step]
OrElse(arg, default) == IF arg.t = "none" THEN default ELSE arg.v

\* Wire.__slice_to_range
slice_to_range(s) ==
    LET start == OrElse(s.start, 1)
        stop == OrElse(s.stop, 32)
        step == OrElse(s.step, 1)
    IN IF s.slice
         THEN IF ~(1 <= start /\ start <= 32 /\ 1 <= stop /\ stop <= 32)
                   \/ step = 0
                THEN [range |-> <<>>, err |-> TRUE]
              ELSE [range |-> Range(start, stop + 1, step), err |-> FALSE]
       ELSE IF ~(1 <= s.start.v /\ s.start.v <= 32)
         THEN [range |-> <<>>, err |-> TRUE]
       ELSE [range |-> <<s.start.v>>, err |-> FALSE]

\* Wire.__is_number and Wire.__is_bool (a bool is an int in Python)
is_number(H, element) ==
    \/ element.t \in {"num", "bool"}
    \/ element.t = "wire" /\ H.wires[element.v].wire_type = "Number"
is_bool(H, element) ==
    \/ element.t = "bool"
    \/ element.t = "wire" /\ H.wires[element.v].wire_type = "Boolean"

\* channelN = value for the N of index_slice, paired in order
ChannelsOf(index_slice, value_list) ==
    [i \in 1..NumChannels |->
        IF \E j \in 1..Len(index_slice) : index_slice[j] = i
          THEN value_list[CHOOSE j \in 1..Len(index_slice) : index_slice[j] = i]
        ELSE ANone]
\* The positional call composite_write(self, item, value): item is passed
\* as channel1 and value as channel2.
Positional(item, value) ==
    [i \in 1..NumChannels |->
        IF i = 1 THEN ANum(item) ELSE IF i = 2 THEN value ELSE ANone]

\* Wire.set.  value is a sequence: the values of a slice assignment, or the
\* one value written at an int index.  The set SET_VIA_SET_METHOD only
\* decides whether __setitem__ prints a warning.
SetSlice(H, self, value, index_slice) ==
    IF index_slice.err \/ Len(value) # Len(index_slice.range) THEN Failed(H)
    ELSE IF Len(index_slice.range) = 0
      THEN [h |-> H, w |-> self, err |-> FALSE]
    ELSE IF is_number(H, value[1])
      THEN composite_write_number(H, AWire(self),
                                  ChannelsOf(index_slice.range, value), ANone)
    ELSE composite_write_boolean(H, AWire(self),
                                 ChannelsOf(index_slice.range, value), ANone)
SetIndex(H, self, item, value, index_slice) ==
    IF index_slice.err THEN Failed(H)
    ELSE IF is_number(H, value)
      THEN composite_write_number(H, AWire(self), Positional(item, value), ANone)
    ELSE IF is_bool(H, value)
      THEN composite_write_boolean(H, AWire(self), Positional(item, value), ANone)
    ELSE Failed(H)
set(H, self, item, value) ==
    IF H.wires[self].wire_type # "Composite" THEN Failed(H)
    ELSE IF item.slice THEN SetSlice(H, self, value, slice_to_range(item))
    ELSE SetIndex(H, self, item.start.v, value[1], slice_to_range(item))

\* Wire.__setitem__: the write is made on a clone of the wire, and the wire
\* takes the producer of the result r.
TakeProducer(H, self, r) ==
    IF r.err THEN [h |-> H, err |-> TRUE]
    ELSE replace_producer(r.h, self, r.w)
setitem(H, self, item, value) ==
    TakeProducer(H, self,
        set(AllocWire(H, Wire(H.wires[self].wire_type, H.wires[self].producer,
                              H.wires[self].node_index)),
            LastWire(H) + 1, item, value))

\* Wire.__neg__: comp.sub(comp.unconnected(SignalType.Number), self)
SubFrom(u, self) == sub(u.h, AWire(u.w), self)
neg(H, self) ==
    IF self.t # "wire" \/ H.wires[self.v].wire_type # "Number" THEN Failed(H)
    ELSE SubFrom(unconnected(H, "Number"), self)

\* A component_id that is None for a Placeholder as it is for Unconnected.
component_id_or_none(H, w) ==
    LET producer == H.wires[w].producer IN
    CASE producer.k = "ComponentWrapper" ->
           [id |-> H.comps[producer.id].component_id, none |-> FALSE,
            err |-> FALSE]
      [] producer.k = "InputPlaceholder" ->
           [id |-> H.markers[producer.id].component_id, none |-> FALSE,
            err |-> FALSE]
      [] OTHER -> [id |-> 0, none |-> TRUE, err |-> FALSE]

\* Wire.component_id: the id of the producer, None (none = TRUE) for
\* Unconnected, a RuntimeError for Placeholder.
component_id(H, w) ==
    LET producer == H.wires[w].producer IN
    CASE producer.k = "ComponentWrapper" ->
           [id |-> H.comps[producer.id].component_id, none |-> FALSE,
            err |-> FALSE]
      [] producer.k = "InputPlaceholder" ->
           [id |-> H.markers[producer.id].component_id, none |-> FALSE,
            err |-> FALSE]
      [] producer.k = "Unconnected" -> [id |-> 0, none |-> TRUE, err |-> FALSE]
      [] OTHER -> [id |-> 0, none |-> FALSE, err |-> TRUE]

\* An Input(component_id, node_index), and None.
Input(id, node_index) ==
    [none |-> FALSE, component_id |-> id, node_index |-> node_index]
NoInput == [none |-> TRUE, component_id |-> 0, node_index |-> 0]

\* Wire.to_input
to_input(H, w) ==
    LET id == component_id(H, w) IN
    IF id.err THEN [input |-> NoInput, err |-> TRUE]
    ELSE IF id.none THEN [input |-> NoInput, err |-> FALSE]
    ELSE [input |-> Input(id.id, H.wires[w].node_index), err |-> FALSE]

\* ComponentWrapper.to_component: the inner component with its id and, for
\* each input that has a producer id, the Input made from the wire.
to_component(H, component) ==
    LET c == H.comps[component]
        ins == [name \in DOMAIN c.inputs |-> to_input(H, c.inputs[name])]
    IN [component |->
          [wrapper |-> component, kind |-> c.kind,
           component_id |-> c.component_id,
           inputs |-> [name \in DOMAIN c.inputs |-> ins[name].input]],
        err |-> \E name \in DOMAIN c.inputs : ins[name].err]

\* ------------------------------------------------------------ the program
\* A program is a sequence of calls of the builder's API.  A call names the
\* operation, the constructor (kind) and signal type (st) where one is
\* built, the register of the wire it acts on (r), its arguments (registers,
\* ints, bools, None), an index (item) and two ints (x, y: a grid position,
\* or the numeric properties of a constructor).
AReg(i) == [t |-> "reg", v |-> i]
Call(op, kind, st, r, args, item, x, y) ==
    [op |-> op, kind |-> kind, st |-> st, r |-> r, args |-> args,
     item |-> item, x |-> x, y |-> y]
New(kind, args) == Call("new", kind, "Number", 0, args, IntItem(0), 0, 0)
NewOf(kind, st) == Call("new", kind, st, 0, <<>>, IntItem(0), 0, 0)
NewWith(kind, args, x, y) == Call("new", kind, "Number", 0, args, IntItem(0), x, y)
On(op, r) == Call(op, "", "", r, <<>>, IntItem(0), 0, 0)
OnWith(op, r, args) == Call(op, "", "", r, args, IntItem(0), 0, 0)
Write(op, r, item, value) == Call(op, "", "", r, value, item, 0, 0)
At(op, r, x, y) == Call(op, "", "", r, <<>>, IntItem(0), x, y)

RECURSIVE SumVars(_)
\* The body x+y+... over the first n variables.
SumVars(n) ==
    IF n = 0 THEN Num(0)
    ELSE IF n = 1 THEN Var(Names[1])
    ELSE Op2("+", SumVars(n - 1), Var(Names[n]))

\* The names a program gives its properties: the default name, and two more.
PropertyNames == <<"value", "p", "q">>
\* The constructor a "new" call names, applied to its arguments.
Build(H, call, A) ==
    LET k == call.kind IN
    CASE k = "input" -> input(H, call.st)
      [] k = "unconnected" -> unconnected(H, call.st)
      [] k = "placeholder" -> placeholder(H, call.st)
      [] k = "add" -> add(H, A[1], A[2])
      [] k = "sub" -> sub(H, A[1], A[2])
      [] k = "mul" -> mul(H, A[1], A[2])
      [] k = "neg" -> neg(H, A[1])
      [] k = "abs" -> abs(H, A[1])
      [] k = "clamp" -> clamp(H, A[1], call.x, call.y)
      [] k = "constant_number" -> constant_number(H, call.x)
      [] k = "property_number" ->
           property_number(H, call.x, PropertyNames[call.y + 1])
      [] k = "property_toggle" ->
           property_toggle(H, call.x, PropertyNames[call.y + 1])
      [] k = "delta" -> delta(H, A[1])
      [] k = "equal" -> equal(H, A[1], A[2], call.x)
      [] k = "greater_than" -> greater_than(H, A[1], A[2])
      [] k = "less_than" -> less_than(H, A[1], A[2])
      [] k = "threshold" -> threshold(H, A[1], call.x, call.y)
      [] k = "and_" -> and_(H, A[1], A[2])
      [] k = "or_" -> or_(H, A[1], A[2])
      [] k = "xor" -> xor(H, A[1], A[2])
      [] k = "nand" -> nand(H, A[1], A[2])
      [] k = "nor" -> nor(H, A[1], A[2])
      [] k = "not_" -> not_(H, A[1])
      [] k = "constant_on" -> constant_on(H)
      [] k = "numerical_switchbox" -> numerical_switchbox(H, A[1], A[2], A[3])
      [] k = "up_down_counter" ->
           up_down_counter(H, A[1], A[2], A[3], call.x, 0, 0, call.y, call.y > 0)
      [] k = "function" -> function(H, SumVars(Len(A)), Args8(A))
      [] k = "composite_write_number" ->
           \* composite_write_number(composite, channel<x>=value)
           composite_write_number(H, A[1], [NoChannels EXCEPT ![call.x] = A[2]],
                                  ANone)
      [] OTHER -> [h |-> H, w |-> 0, err |-> TRUE]

\* ------------------------------------------------------------------ state
VARIABLES
    comps, wires, markers,     \* the heap
    calls, regs,               \* the program: calls left, wires it holds
    pc, error,                 \* where the run is; the exception raised
    nodes, id_counter, width, length,      \* the sw_mc_lib microcontroller
    placed_inputs, placed_outputs, additional_components, properties,
    mc_optimize, mc_components,
    components, optimized_components, in_progress,   \* the Optimizer
    stack, retval, opt_wires, root_idx, to_visit, visited, current, input_idx,
    return_to,
    steps,                     \* the steps optimize_arithmetic and _resolve
                               \* have taken since the call at hand began
    resolve_to_visit, visited_nodes, visited_components, next_id,  \* _resolve
    before, last_write, rebound,  \* history: the heap before the optimizer
                               \* ran, the last value written to each channel,
                               \* whether the merge gave a port a second wire,
    after, rerun,              \* the heap the optimizer left, whether the
                               \* run at hand repeats the run that left it
    script,                    \* the program as it was given
    mc_xml,                    \* the document _resolve_and_optimize returns
    other_mc,                  \* the second Microcontroller of the program
    source_mc, vehicle_mc,     \* the microcontroller a vehicle held, and the
                               \* one written to it
    vehicle_xml                \* the vehicle file replace_in_vehicle read,
                               \* what it left of it, whether it wrote it

heap_vars == <<comps, wires, markers>>
prog_vars == <<calls, regs>>
xml_vars == <<mc_xml, source_mc, vehicle_mc, other_mc, vehicle_xml>>
mc_vars ==
    <<nodes, id_counter, width, length, placed_inputs, placed_outputs,
      additional_components, properties, mc_optimize, mc_components,
      xml_vars>>
optimizer_vars ==
    <<components, optimized_components, in_progress, stack, retval, opt_wires,
      root_idx, to_visit, visited, current, input_idx, return_to>>
opt_vars == <<optimizer_vars, steps>>
resolve_vars == <<resolve_to_visit, visited_nodes, visited_components, next_id>>
hist_vars == <<before, last_write, rebound, after, rerun, script>>
vars ==
    <<heap_vars, prog_vars, pc, error, mc_vars, opt_vars, resolve_vars,
      hist_vars>>

Heap == [comps |-> comps, wires |-> wires, markers |-> markers]
SetHeap(H) == comps' = H.comps /\ wires' = H.wires /\ markers' = H.markers

\* An argument of the call at hand: a register is the wire it holds.
ArgOf(a) == IF a.t = "reg" THEN AWire(regs[a.v]) ELSE a
ArgsOf(call) == [i \in 1..Len(call.args) |-> ArgOf(call.args[i])]

\* The call at hand is op.
Calling(op) == pc = "script" /\ calls # <<>> /\ Head(calls).op = op
\* One more step of the optimizer or of the resolver.
Tick == steps' = steps + 1
\* The exception name ends the program.
Raise(name) == pc' = "error" /\ error' = name
Proceed == pc' = "script" /\ error' = error

\* The input ports of a component in the order of its inputs dictionary.
PortOrder(c) ==
    CASE c.kind \in {"Add", "Subtract", "Multiply", "Divide", "AND", "NAND",
                     "OR", "NOR", "XOR", "Equal", "GreaterThan", "LessThan"} ->
           <<"a_input", "b_input">>
      [] c.kind \in {"Abs", "Clamp", "Threshold"} -> <<"number_input">>
      [] c.kind = "NOT" -> <<"a_input">>
      [] c.kind = "Delta" -> <<"value_input">>
      [] IsFunction(c) -> FunctionPorts
      [] c.kind = "NumericalSwitchbox" ->
           <<"on_value_input", "off_value_input", "switch_signal_input">>
      [] c.kind = "UpDownCounter" -> <<"up_input", "down_input", "reset_input">>
      [] IsCompositeWrite(c) ->
           <<"composite_signal_input", "start_channel_input">>
           \o [i \in 1..NumChannels |-> ChannelPort(i)]
      [] c.kind = "TooltipNumber" -> <<"display_number_input", "is_error_input">>
      [] OTHER -> <<>>
\* component.inputs.values()
InputWires(H, component) ==
    LET c == H.comps[component] IN
    [i \in 1..Len(PortOrder(c)) |-> c.inputs[PortOrder(c)[i]]]

\* ------------------------------------------------- building the graph
\* The wire r.w a constructor returned is held by the next register.
Hold(r) ==
    IF r.err THEN Raise("TypeError") /\ UNCHANGED <<heap_vars, regs>>
    ELSE SetHeap(r.h) /\ regs' = Append(regs, r.w) /\ Proceed
\* w = comp.<kind>(...)
NewComponent ==
    /\ Calling("new")
    /\ Hold(Build(Heap, Head(calls), ArgsOf(Head(calls))))
    /\ calls' = Tail(calls)
    /\ UNCHANGED <<mc_vars, opt_vars, resolve_vars, hist_vars>>

\* w = Wire.to(signal_type, value)
WireTo ==
    /\ Calling("to")
    /\ Hold(To(Heap, Head(calls).st, ArgsOf(Head(calls))[1]))
    /\ calls' = Tail(calls)
    /\ UNCHANGED <<mc_vars, opt_vars, resolve_vars, hist_vars>>

\* The two wires a constructor returned, r.w the second, are held by the
\* next two registers.
HoldBoth(r) ==
    IF r.err THEN Raise("TypeError") /\ UNCHANGED <<heap_vars, regs>>
    ELSE SetHeap(r.h) /\ regs' = regs \o <<r.w - 1, r.w>> /\ Proceed
\* q, by_zero = comp.div(a, b)
NewDivide ==
    /\ Calling("div")
    /\ HoldBoth(div(Heap, ArgsOf(Head(calls))[1], ArgsOf(Head(calls))[2]))
    /\ calls' = Tail(calls)
    /\ UNCHANGED <<mc_vars, opt_vars, resolve_vars, hist_vars>>

\* wire.stop_optimization()
StopOptimization ==
    /\ Calling("stop_optimization")
    /\ SetHeap(stop_optimization(Heap, regs[Head(calls).r]))
    /\ calls' = Tail(calls)
    /\ Proceed
    /\ UNCHANGED <<regs, mc_vars, opt_vars, resolve_vars, hist_vars>>

\* wire.force_property()
ForceProperty ==
    /\ Calling("force_property")
    /\ SetHeap(force_property(Heap, regs[Head(calls).r]))
    /\ calls' = Tail(calls)
    /\ Proceed
    /\ UNCHANGED <<regs, mc_vars, opt_vars, resolve_vars, hist_vars>>

\* The heap r.h of a call that returns nothing.
ReturnNone(r) ==
    IF r.err THEN Raise("TypeError") /\ UNCHANGED heap_vars
    ELSE SetHeap(r.h) /\ Proceed
\* wire.replace_producer(new_wire)
ReplaceProducer ==
    /\ Calling("replace_producer")
    /\ ReturnNone(replace_producer(Heap, regs[Head(calls).r],
                                   regs[Head(calls).args[1].v]))
    /\ calls' = Tail(calls)
    /\ UNCHANGED <<regs, mc_vars, opt_vars, resolve_vars, hist_vars>>

\* The record of the writes: the register written, the producer its wire
\* had before the first write (base) and, per channel, the last value
\* written to it (t = "unwritten" before the first); of the last write, the
\* index (item), the values and the producer the wire had before it (prev).
Unwritten == [t |-> "unwritten", v |-> 0]
NoWrites ==
    [r |-> 0, base |-> Unconnected,
     channel |-> [i \in 1..NumChannels |-> Unwritten],
     item |-> IntItem(0), value |-> <<>>, prev |-> Unconnected]
WrittenAt(lw, r, base, index_slice, item, value) ==
    [r |-> r,
     base |-> IF lw.r = 0 THEN base ELSE lw.base,
     channel |-> [i \in 1..NumChannels |->
        IF \E j \in 1..Len(index_slice) : index_slice[j] = i
          THEN value[CHOOSE j \in 1..Len(index_slice) : index_slice[j] = i]
        ELSE lw.channel[i]],
     item |-> item, value |-> value, prev |-> base]
Written(lw, r, base, item, value) ==
    WrittenAt(lw, r, base, slice_to_range(item).range, item, value)

\* The register call.r takes the wire r.w that set returned.
Rebind(call, r) ==
    IF r.err
      THEN Raise("TypeError") /\ UNCHANGED <<heap_vars, regs, last_write>>
    ELSE /\ SetHeap(r.h)
         /\ regs' = [regs EXCEPT ![call.r] = r.w]
         /\ last_write' = Written(last_write, call.r,
                                  wires[regs[call.r]].producer, call.item,
                                  ArgsOf(call))
         /\ Proceed
\* w = w.set(item, value)
SetWire ==
    /\ Calling("set")
    /\ Rebind(Head(calls),
              set(Heap, regs[Head(calls).r], Head(calls).item,
                  ArgsOf(Head(calls))))
    /\ calls' = Tail(calls)
    /\ UNCHANGED <<mc_vars, opt_vars, resolve_vars, before, rebound, after,
                   rerun, script>>

\* The wire of register call.r has been written in place.
Overwrite(call, r) ==
    IF r.err THEN Raise("TypeError") /\ UNCHANGED <<heap_vars, last_write>>
    ELSE /\ SetHeap(r.h)
         /\ last_write' = Written(last_write, call.r,
                                  wires[regs[call.r]].producer, call.item,
                                  ArgsOf(call))
         /\ Proceed
\* w[item] = value
SetItem ==
    /\ Calling("setitem")
    /\ Overwrite(Head(calls),
                 setitem(Heap, regs[Head(calls).r], Head(calls).item,
                         ArgsOf(Head(calls))))
    /\ calls' = Tail(calls)
    /\ UNCHANGED <<regs, mc_vars, opt_vars, resolve_vars, before, rebound, after,
                   rerun, script>>

\* ------------------------------------------------------ microcontroller.py
\* The grid a node is placed on is GridSize by GridSize.
GridSize == 6
\* PROPERTIES of _utils.py and the kinds add_property accepts
PROPERTIES ==
    {"PropertyNumber", "PropertySlider", "PropertyToggle", "PropertyDropdown",
     "PropertyText"}
PlaceableProperties ==
    {"PropertyNumber", "PropertySlider", "PropertyToggle", "PropertyDropdown"}

\* A validation that accepts every position.
validate_nothing(ns, w, l, x, y) ==
    [err |-> FALSE, width |-> MaxV(w, x + 1), length |-> MaxV(l, y + 1)]
\* Microcontroller._validate_placement: an error for a taken or outside
\* position, else the width and length that cover it.
validate_placement(ns, w, l, x, y) ==
    IF \E i \in 1..Len(ns) : ns[i].x = x /\ ns[i].y = y
      THEN [err |-> TRUE, width |-> w, length |-> l]
    ELSE IF x >= GridSize \/ y >= GridSize \/ x < 0 \/ y < 0
      THEN [err |-> TRUE, width |-> w, length |-> l]
    ELSE [err |-> FALSE, width |-> MaxV(w, x + 1), length |-> MaxV(l, y + 1)]

\* A Node of the microcontroller; add_new_node of sw_mc_lib gives it the
\* next id of the microcontroller's counter.  An input node has the name of
\* its InputPlaceholder, for which the index of the marker stands (0: the
\* name of an output).
Node(mode, name, x, y, id, input_) ==
    [mode |-> mode, name |-> name, x |-> x, y |-> y, component_id |-> id,
     input |-> input_]

\* Microcontroller.__init__: what a Microcontroller holds when it is made,
\* and the locals of its last _resolve (none yet).
NewMicrocontroller ==
    [nodes |-> <<>>, id_counter |-> 0, width |-> 2, length |-> 2,
     placed_inputs |-> {}, placed_outputs |-> <<>>,
     additional_components |-> <<>>, properties |-> {}, mc_optimize |-> TRUE,
     mc_components |-> {}, resolve_to_visit |-> {}, visited_nodes |-> {},
     visited_components |-> {}, next_id |-> 0]

\* handle_mcs(*mcs): the program holds two Microcontrollers, and from here
\* on its calls are made on the other one.
OtherMicrocontroller ==
    /\ Calling("other_microcontroller")
    /\ nodes' = other_mc.nodes
    /\ id_counter' = other_mc.id_counter
    /\ width' = other_mc.width
    /\ length' = other_mc.length
    /\ placed_inputs' = other_mc.placed_inputs
    /\ placed_outputs' = other_mc.placed_outputs
    /\ additional_components' = other_mc.additional_components
    /\ properties' = other_mc.properties
    /\ mc_optimize' = other_mc.mc_optimize
    /\ mc_components' = other_mc.mc_components
    /\ resolve_to_visit' = other_mc.resolve_to_visit
    /\ visited_nodes' = other_mc.visited_nodes
    /\ visited_components' = other_mc.visited_components
    /\ next_id' = other_mc.next_id
    /\ other_mc' =
           [nodes |-> nodes, id_counter |-> id_counter, width |-> width,
            length |-> length, placed_inputs |-> placed_inputs,
            placed_outputs |-> placed_outputs,
            additional_components |-> additional_components,
            properties |-> properties, mc_optimize |-> mc_optimize,
            mc_components |-> mc_components,
            resolve_to_visit |-> resolve_to_visit,
            visited_nodes |-> visited_nodes,
            visited_components |-> visited_components, next_id |-> next_id]
    /\ calls' = Tail(calls)
    /\ Proceed
    /\ UNCHANGED <<heap_vars, regs, mc_xml, source_mc, vehicle_mc, vehicle_xml,
                   opt_vars, hist_vars>>

\* Microcontroller.place_input
PlaceInput ==
    /\ Calling("place_input")
    /\ LET call == Head(calls)
           producer == wires[regs[call.r]].producer
           v == validate_placement(nodes, width, length, call.x, call.y)
       IN IF producer.k # "InputPlaceholder"
            THEN Raise("TypeError")
                 /\ UNCHANGED <<markers, nodes, id_counter, width, length,
                                placed_inputs>>
          ELSE IF producer.id \in placed_inputs \/ v.err
            THEN Raise("ValueError")
                 /\ UNCHANGED <<markers, nodes, id_counter, width, length,
                                placed_inputs>>
          ELSE /\ width' = v.width
               /\ length' = v.length
               /\ id_counter' = id_counter + 1
               /\ nodes' = Append(nodes, Node("Input", producer.id, call.x,
                                              call.y, id_counter + 1, NoInput))
               /\ markers' = [markers EXCEPT ![producer.id].component_id =
                                                 id_counter + 1]
               /\ placed_inputs' = placed_inputs \cup {producer.id}
               /\ Proceed
    /\ calls' = Tail(calls)
    /\ UNCHANGED <<comps, wires, regs, placed_outputs, additional_components,
                   properties, mc_optimize, mc_components, xml_vars, opt_vars,
                   resolve_vars, hist_vars>>

\* Microcontroller.place_output: the position is validated (and the
\* microcontroller widened) before the wire is read.
PlaceOutput ==
    /\ Calling("place_output")
    /\ LET call == Head(calls)
           v == validate_placement(nodes, width, length, call.x, call.y)
           i == to_input(Heap, regs[call.r])
       IN IF v.err
            THEN Raise("ValueError")
                 /\ UNCHANGED <<nodes, id_counter, width, length, placed_outputs>>
          ELSE IF i.err
            THEN Raise("RuntimeError")
                 /\ width' = v.width
                 /\ length' = v.length
                 /\ UNCHANGED <<nodes, id_counter, placed_outputs>>
          ELSE /\ width' = v.width
               /\ length' = v.length
               /\ id_counter' = id_counter + 1
               /\ nodes' = Append(nodes, Node("Output", 0, call.x, call.y,
                                              id_counter + 1, i.input))
               /\ placed_outputs' =
                      Append(placed_outputs,
                             [wire |-> regs[call.r], node |-> Len(nodes) + 1])
               /\ Proceed
    /\ calls' = Tail(calls)
    /\ UNCHANGED <<heap_vars, regs, placed_inputs, additional_components,
                   properties, mc_optimize, mc_components, xml_vars, opt_vars,
                   resolve_vars, hist_vars>>

\* Microcontroller.add_property
AddProperty ==
    /\ Calling("add_property")
    /\ LET producer == wires[regs[Head(calls).r]].producer
       IN IF producer.k = "ComponentWrapper"
               /\ comps[producer.id].kind \in PlaceableProperties
            THEN /\ additional_components' =
                        Append(additional_components, producer.id)
                 /\ Proceed
          ELSE Raise("TypeError") /\ UNCHANGED additional_components
    /\ calls' = Tail(calls)
    /\ UNCHANGED <<heap_vars, regs, nodes, id_counter, width, length,
                   placed_inputs, placed_outputs, properties, mc_optimize,
                   mc_components, xml_vars, opt_vars, resolve_vars, hist_vars>>

\* The ComponentWrapper of the tooltip joins the additional components; it
\* is made without a wire.
AddTooltip(r) ==
    IF r.err
      THEN Raise("TypeError") /\ UNCHANGED <<heap_vars, additional_components>>
    ELSE /\ SetHeap([r.h EXCEPT !.wires = SubSeq(@, 1, Len(@) - 1)])
         /\ additional_components' =
                Append(additional_components, LastComp(r.h))
         /\ Proceed
\* Microcontroller.add_number_tooltip(name, display_number, is_error)
AddNumberTooltip ==
    /\ Calling("add_number_tooltip")
    /\ AddTooltip(Construct(Heap, Proto("TooltipNumber"),
           <<<<"display_number_input", "Number", ArgOf(Head(calls).args[1])>>,
             <<"is_error_input", "Boolean", ArgOf(Head(calls).args[2])>>>>,
           "Number"))
    /\ calls' = Tail(calls)
    /\ UNCHANGED <<regs, nodes, id_counter, width, length, placed_inputs,
                   placed_outputs, properties, mc_optimize, mc_components,
                   xml_vars,
                   opt_vars, resolve_vars, hist_vars>>

\* Microcontroller.stop_optimization
McStopOptimization ==
    /\ Calling("mc_stop_optimization")
    /\ mc_optimize' = FALSE
    /\ calls' = Tail(calls)
    /\ Proceed
    /\ UNCHANGED <<heap_vars, regs, nodes, id_counter, width, length,
                   placed_inputs, placed_outputs, additional_components,
                   properties, mc_components, xml_vars, opt_vars, resolve_vars,
                   hist_vars>>

\* ------------------------------------------------- running the optimizer
\* [w.producer for w in wires if isinstance(w.producer, ComponentWrapper)]
RECURSIVE ProducersOf(_, _)
ProducersOf(H, ws) ==
    IF ws = <<>> THEN <<>>
    ELSE IF H.wires[Head(ws)].producer.k = "ComponentWrapper"
      THEN <<H.wires[Head(ws)].producer.id>> \o ProducersOf(H, Tail(ws))
    ELSE ProducersOf(H, Tail(ws))
SeqRange(seq) == {seq[i] : i \in 1..Len(seq)}
NoMemo == [c \in {} |-> 0]

\* optimize_arithmetic(wires) up to its loop: Optimizer.__init__
StartOptimizer(ws, back) ==
    /\ opt_wires' = ws
    /\ components' = ProducersOf(Heap, ws)
    /\ optimized_components' = NoMemo
    /\ in_progress' = {}
    /\ to_visit' = SeqRange(ProducersOf(Heap, ws))
    /\ visited' = {}
    /\ stack' = <<>>
    /\ root_idx' = 1
    /\ current' = 0
    /\ input_idx' = 1
    /\ return_to' = back
    /\ retval' = 0
    /\ steps' = 0
    /\ before' = Heap
    /\ rerun' = (before # EmptyHeap /\ after = Heap /\ opt_wires = ws)
    /\ pc' = "roots"

\* optimize_arithmetic(wires), called by the program
OptimizeArithmetic ==
    /\ Calling("optimize_arithmetic")
    /\ StartOptimizer([i \in 1..Len(Head(calls).args) |->
                          regs[Head(calls).args[i].v]], "script")
    /\ calls' = Tail(calls)
    /\ UNCHANGED <<heap_vars, regs, error, mc_vars, resolve_vars, last_write,
                   rebound, after, script>>

RECURSIVE AdditionalWires(_, _)
\* [wire for component in additional_components
\*       for wire in component.inputs.values()]
AdditionalWires(H, cs) ==
    IF cs = <<>> THEN <<>>
    ELSE InputWires(H, Head(cs)) \o AdditionalWires(H, Tail(cs))

\* Microcontroller._resolve_and_optimize up to _resolve: the optimizer runs
\* over the inputs of the additional components and the placed outputs.
Compile ==
    /\ Calling("compile")
    /\ IF mc_optimize
         THEN StartOptimizer(
                  AdditionalWires(Heap, additional_components)
                  \o [i \in 1..Len(placed_outputs) |-> placed_outputs[i].wire],
                  "resolve")
       ELSE pc' = "resolve" /\ UNCHANGED <<opt_vars, before, rerun>>
    /\ calls' = Tail(calls)
    /\ UNCHANGED <<heap_vars, regs, error, mc_vars, resolve_vars, last_write,
                   rebound, after, script>>

\* The call find_optimizations(component): a new frame on the stack.
CallFind(stk, component) == Append(stk, Frame(component))
Top == stack[Len(stack)]
Pop(stk) == SubSeq(stk, 1, Len(stk) - 1)
SetTop(stk, f) == [stk EXCEPT ![Len(stk)] = f]
Record(memo, component, result) ==
    [c \in DOMAIN memo \cup {component} |->
        IF c = component THEN result ELSE memo[c]]

\* for wire_ in wires: the next wire; after the last, apply() begins.
OptimizeRoot ==
    /\ pc = "roots"
    /\ Tick
    /\ IF root_idx > Len(opt_wires)
         THEN /\ pc' = "apply"
              /\ to_visit' = SeqRange(components)
              /\ visited' = {}
              /\ UNCHANGED <<stack, root_idx>>
       ELSE IF wires[opt_wires[root_idx]].producer.k = "ComponentWrapper"
         THEN /\ stack' = CallFind(stack, wires[opt_wires[root_idx]].producer.id)
              /\ pc' = "find_root"
              /\ UNCHANGED <<root_idx, to_visit, visited>>
       ELSE /\ root_idx' = root_idx + 1
            /\ pc' = pc
            /\ UNCHANGED <<stack, to_visit, visited>>
    /\ UNCHANGED <<heap_vars, prog_vars, error, mc_vars, components,
                   optimized_components, in_progress, retval, opt_wires,
                   current, input_idx, return_to, resolve_vars, hist_vars>>

\* wire_.producer = optimizer.find_optimizations(wire_.producer)
OptimizeRootRet ==
    /\ pc = "find_root"
    /\ Tick
    /\ stack = <<>>
    /\ wires' = [wires EXCEPT ![opt_wires[root_idx]].producer = CW(retval)]
    /\ root_idx' = root_idx + 1
    /\ pc' = "roots"
    /\ UNCHANGED <<comps, markers, prog_vars, error, mc_vars, components,
                   optimized_components, in_progress, stack, retval, opt_wires,
                   to_visit, visited, current, input_idx, return_to,
                   resolve_vars, hist_vars>>

InFind == pc \in {"find_root", "find_apply"} /\ stack # <<>>

\* What a step of find_optimizations comes to: a recursive call of
\* find_optimizations(result) from the frame f, the return of result (which
\* is recorded), the return of a recorded result, or an exception.
Calls(H, f, result) ==
    [kind |-> "call", h |-> H, f |-> f, result |-> result, rebound |-> FALSE]
Returns(H, result) ==
    [kind |-> "return", h |-> H, result |-> result, rebound |-> FALSE]
Recorded(H, result) ==
    [kind |-> "recorded", h |-> H, result |-> result, rebound |-> FALSE]
Raises(H, name) ==
    [kind |-> "raise", h |-> H, error |-> name, rebound |-> FALSE]

\* Lines 437-495 have run (m).
Merged(m) ==
    IF m.err THEN [Raises(m.h, "IndexError") EXCEPT !.rebound = m.rebound]
    ELSE [Returns(m.h, m.result) EXCEPT !.rebound = m.rebound]
\* The loop has stopped at the input of a recursive call, or is over.
Continue(s) ==
    IF s.f.idx <= Len(FunctionPorts)
      THEN Calls(s.h, [s.f EXCEPT !.pc = "loop_ret"],
                 s.h.wires[s.h.comps[s.f.optimized].inputs[FunctionPorts[s.f.idx]]]
                     .producer.id)
    ELSE Merged(Merge(s.h, s.f))
\* The loop of lines 396-435 from the input at f.idx on, and what follows
\* it: up to the next recursive call, or to the end of find_optimizations,
\* or to an exception.
Advance(H, inprog, f) ==
    Continue(SkipInputs(inprog, [h |-> H, f |-> f, err |-> FALSE]))

\* What a step of find_optimizations does to the optimizer's state.
Step(a, component) ==
    /\ SetHeap(a.h)
    /\ rebound' = (rebound \/ a.rebound)
    /\ IF a.kind = "call"
         THEN /\ stack' = CallFind(SetTop(stack, a.f), a.result)
              /\ in_progress' = in_progress \cup {component}
              /\ UNCHANGED <<optimized_components, retval, pc, error>>
       ELSE IF a.kind = "return"
         THEN /\ stack' = Pop(stack)
              /\ in_progress' = in_progress \ {component}
              /\ optimized_components' =
                     Record(optimized_components, component, a.result)
              /\ retval' = a.result
              /\ UNCHANGED <<pc, error>>
       ELSE IF a.kind = "recorded"
         THEN /\ stack' = Pop(stack)
              /\ retval' = a.result
              /\ UNCHANGED <<in_progress, optimized_components, pc, error>>
       ELSE /\ Raise(a.error)
            /\ UNCHANGED <<stack, in_progress, optimized_components, retval>>

find_frame ==
    <<prog_vars, mc_vars, components, opt_wires, root_idx, to_visit, visited,
      current, input_idx, return_to, resolve_vars, before, last_write, after,
      rerun, script>>

\* The wires whose iteration order the rewrite of the component at the top
\* of the stack depends on.
OrderedWires ==
    IF /\ InFind
       /\ Top.pc = "enter"
       /\ Top.component \notin DOMAIN optimized_components
       /\ comps[Top.component].optimize
       /\ comps[Top.component].kind \in {"NumericalSwitchbox", "UpDownCounter"}
      THEN RewriteWires(Heap, Top.component)
    ELSE {}

\* Lines 379-384 after the rewrite rw: the component is returned as it is,
\* or the rewritten one is optimized in turn.
Rewritten(H, f, rw) ==
    IF rw.err THEN Raises(H, "KeyError")
    ELSE IF rw.optimized = 0 THEN Returns(rw.h, f.component)
    ELSE Calls(rw.h, [f EXCEPT !.pc = "rewrite_ret", !.optimized = rw.optimized],
               rw.optimized)
\* Lines 386-394: the locals of the loop
Locals(H, f, optimized) ==
    [f EXCEPT !.optimized = optimized,
              !.input_count = get_input_count(H, f.component),
              !.self_references =
                  {name \in DOMAIN H.comps[optimized].inputs :
                     H.wires[H.comps[optimized].inputs[name]].producer =
                         CW(f.component)}]
\* Lines 291-395 after optimize_component (oc)
Optimized(H, inprog, f, order, oc) ==
    IF oc.err THEN Raises(H, "TypeError")
    ELSE IF oc.c # 0
      THEN Advance(oc.h, inprog \cup {f.component}, Locals(oc.h, f, oc.c))
    ELSE Rewritten(H, f, Rewrite(H, f.component, order))
\* find_optimizations(component) from its first line: lines 273-394, then
\* the loop and the merge up to the first recursive call.
Enter(H, memo, inprog, f, order) ==
    IF f.component \in DOMAIN memo THEN Recorded(H, memo[f.component])
    ELSE IF ~H.comps[f.component].optimize THEN Returns(H, f.component)
    ELSE Optimized(H, inprog, f, order, optimize_component(H, f.component))
FindEnter ==
    /\ InFind
    /\ Tick
    /\ Top.pc = "enter"
    /\ \E order \in Orders(OrderedWires) :
         Step(Enter(Heap, optimized_components, in_progress, Top, order),
              Top.component)
    /\ UNCHANGED find_frame

\* Lines 403-435 have run for the input of the call that returned (r).
Resume(H, inprog, r) ==
    IF r.err THEN Raises(H, "TypeError") ELSE Advance(r.h, inprog, r.f)
\* Line 402 has returned raw_optimized: lines 403-435 for this input, then
\* the loop and the merge up to the next recursive call.
FindLoopRet ==
    /\ InFind
    /\ Tick
    /\ Top.pc = "loop_ret"
    /\ Step(Resume(Heap, in_progress,
                   ProcessInput(Heap, in_progress, Top, retval)),
            Top.component)
    /\ UNCHANGED find_frame

\* Lines 380-384: the rewritten component has been optimized in turn; its
\* result is recorded for component, and optimized is returned.
FindRewriteRet ==
    /\ InFind
    /\ Tick
    /\ Top.pc = "rewrite_ret"
    /\ optimized_components' =
           Record(optimized_components, Top.component, retval)
    /\ in_progress' = in_progress \ {Top.component}
    /\ stack' = Pop(stack)
    /\ retval' = Top.optimized
    /\ UNCHANGED <<heap_vars, pc, error, rebound>>
    /\ UNCHANGED find_frame

apply_frame ==
    <<prog_vars, error, mc_vars, components, optimized_components, in_progress,
      retval, opt_wires, root_idx, return_to, resolve_vars, before,
      last_write, rebound, rerun, script>>

\* Optimizer.apply: component = to_visit.pop()
ApplyPop ==
    /\ pc = "apply"
    /\ Tick
    /\ current = 0
    /\ \E component \in to_visit :
         /\ to_visit' = to_visit \ {component}
         /\ IF component \in visited
              THEN UNCHANGED <<visited, current, input_idx>>
            ELSE /\ visited' = visited \cup {component}
                 /\ current' = component
                 /\ input_idx' = 1
    /\ UNCHANGED <<heap_vars, pc, stack, after>>
    /\ UNCHANGED apply_frame

\* for input_wire in component.inputs.values()
ApplyInput ==
    /\ pc = "apply"
    /\ Tick
    /\ current # 0
    /\ LET ws == InputWires(Heap, current)
       IN IF input_idx > Len(ws)
            THEN current' = 0 /\ UNCHANGED <<input_idx, stack, pc>>
          ELSE IF wires[ws[input_idx]].producer.k = "ComponentWrapper"
            THEN /\ stack' = CallFind(stack, wires[ws[input_idx]].producer.id)
                 /\ pc' = "find_apply"
                 /\ UNCHANGED <<current, input_idx>>
          ELSE input_idx' = input_idx + 1 /\ UNCHANGED <<current, stack, pc>>
    /\ UNCHANGED <<heap_vars, to_visit, visited, after>>
    /\ UNCHANGED apply_frame

\* input_wire.producer = self.find_optimizations(input_wire.producer)
\* to_visit.add(input_wire.producer)
ApplyRet ==
    /\ pc = "find_apply"
    /\ Tick
    /\ stack = <<>>
    /\ wires' = [wires EXCEPT
                   ![InputWires(Heap, current)[input_idx]].producer = CW(retval)]
    /\ to_visit' = to_visit \cup {retval}
    /\ input_idx' = input_idx + 1
    /\ pc' = "apply"
    /\ UNCHANGED <<comps, markers, stack, visited, current, after>>
    /\ UNCHANGED apply_frame

\* while to_visit: is over; optimize_arithmetic returns.
ApplyDone ==
    /\ pc = "apply"
    /\ Tick
    /\ current = 0
    /\ to_visit = {}
    /\ pc' = return_to
    /\ after' = Heap
    /\ UNCHANGED <<heap_vars, stack, to_visit, visited, current, input_idx>>
    /\ UNCHANGED apply_frame

\* A traversal that does not follow the inputs of a component.
NoInputProducers(H, component) == {}

\* ---------------------------------------------------------------- _resolve
\* {input_wire.producer for input_wire in component.inputs.values()}.  The
\* Unconnected and Placeholder objects, which the traversal passes over,
\* are kept as one element each.
InputProducers(H, component) ==
    {H.wires[H.comps[component].inputs[name]].producer :
        name \in DOMAIN H.comps[component].inputs}

RECURSIVE ResolveAdditionalOneId(_, _)
\* Additional components that all take the same id: next_id stays.
ResolveAdditionalOneId(cs, st) ==
    IF cs = <<>> THEN st
    ELSE ResolveAdditionalOneId(Tail(cs),
            [st EXCEPT !.comps[Head(cs)].component_id = st.next_id,
                       !.visited_components = @ \cup {Head(cs)}])

RECURSIVE ResolveAdditional(_, _)
\* Lines 188-197: the additional components take their ids in the order
\* they were added.  st is the state of _resolve.
ResolveAdditional(cs, st) ==
    IF cs = <<>> THEN st
    ELSE LET component == Head(cs) IN
         ResolveAdditional(Tail(cs),
            [comps |-> [st.comps EXCEPT ![component].component_id = st.next_id],
             to_visit |-> st.to_visit
                 \cup InputProducers([comps |-> st.comps, wires |-> wires,
                                      markers |-> markers], component),
             visited_components |-> st.visited_components \cup {component},
             properties |->
                 IF st.comps[component].kind \in PROPERTIES
                   THEN st.properties \cup {component} ELSE st.properties,
             next_id |-> st.next_id + 1])

\* _resolve, lines 181-197
ResolveStart ==
    /\ pc = "resolve"
    /\ Tick
    /\ LET st == ResolveAdditional(additional_components,
                    [comps |-> comps,
                     to_visit |-> {wires[placed_outputs[i].wire].producer :
                                      i \in 1..Len(placed_outputs)},
                     visited_components |-> {},
                     properties |-> properties,
                     next_id |-> id_counter + 1])
       IN /\ comps' = st.comps
          /\ resolve_to_visit' = st.to_visit
          /\ visited_nodes' = {}
          /\ visited_components' = st.visited_components
          /\ properties' = st.properties
          /\ next_id' = st.next_id
    /\ pc' = "resolve_loop"
    /\ UNCHANGED <<wires, markers, prog_vars, error, nodes, id_counter, width,
                   length, placed_inputs, placed_outputs, additional_components,
                   mc_optimize, mc_components, xml_vars, optimizer_vars,
                   hist_vars>>

\* _resolve, lines 199-217: one turn of the while loop
ResolveVisit ==
    /\ pc = "resolve_loop"
    /\ Tick
    /\ \E cur \in resolve_to_visit :
         /\ resolve_to_visit' =
              (resolve_to_visit \ {cur})
              \cup (IF cur \notin visited_nodes /\ cur.k = "ComponentWrapper"
                      THEN InputProducers(Heap, cur.id) ELSE {})
         /\ IF cur \in visited_nodes
              THEN UNCHANGED <<visited_nodes, visited_components, properties,
                               comps, next_id, pc, error>>
            ELSE /\ visited_nodes' = visited_nodes \cup {cur}
                 /\ IF cur.k = "ComponentWrapper"
                      THEN /\ visited_components' =
                                  visited_components \cup {cur.id}
                           /\ properties' =
                                  IF comps[cur.id].kind \in PROPERTIES
                                    THEN properties \cup {cur.id}
                                  ELSE properties
                           /\ comps' = [comps EXCEPT ![cur.id].component_id =
                                                         next_id]
                           /\ next_id' = next_id + 1
                           /\ UNCHANGED <<pc, error>>
                    ELSE IF cur.k = "InputPlaceholder"
                            /\ cur.id \notin placed_inputs
                      THEN /\ Raise("ValueError")
                           /\ UNCHANGED <<visited_components, properties, comps,
                                          next_id>>
                    ELSE UNCHANGED <<visited_components, properties, comps,
                                     next_id, pc, error>>
    /\ UNCHANGED <<wires, markers, prog_vars, nodes, id_counter, width, length,
                   placed_inputs, placed_outputs, additional_components,
                   mc_optimize, mc_components, xml_vars, optimizer_vars,
                   hist_vars>>

\* Output nodes that keep the input they were placed with.
KeepOutputs(H, outs, ns) == [nodes |-> ns, err |-> FALSE]

RECURSIVE BindOutputs(_, _, _)
\* Lines 219-222: node.input = wire.to_input() for each placed output
BindOutputs(H, outs, ns) ==
    IF outs = <<>> THEN [nodes |-> ns, err |-> FALSE]
    ELSE LET i == to_input(H, Head(outs).wire) IN
         IF i.err THEN [nodes |-> ns, err |-> TRUE]
         ELSE BindOutputs(H, Tail(outs),
                          [ns EXCEPT ![Head(outs).node].input = i.input])

\* _resolve, lines 219-225: the outputs are bound and the components
\* emitted.  The list the components are appended to is kept as a set: they
\* are appended in the iteration order of a set.
\* Microcontroller.to_xml of sw_mc_lib as far as the merge reads it: one
\* object per component, with its id, its type, its name and its value v (a
\* set: empty when the object carries none).
to_xml(H, members) ==
    {[id |-> m.component_id, type |-> m.kind, name |-> H.comps[m.wrapper].name,
      v |-> {H.comps[m.wrapper].value}, force_property |-> FALSE] :
        m \in members}

\* _resolve_and_optimize, lines 250-261: the ids of the flagged members of
\* _properties, and the objects of these ids marked.
ForcedIds(H, props) ==
    {H.comps[p].component_id : p \in {q \in props : H.comps[q].force_property}}
MarkForced(ids, xml) ==
    {IF obj.id \in ids THEN [obj EXCEPT !.force_property = TRUE] ELSE obj :
        obj \in xml}

ResolveFinish ==
    /\ pc = "resolve_loop"
    /\ Tick
    /\ resolve_to_visit = {}
    /\ LET b == BindOutputs(Heap, placed_outputs, nodes)
       IN /\ nodes' = b.nodes
          /\ IF b.err \/ \E c \in visited_components : to_component(Heap, c).err
               THEN Raise("RuntimeError") /\ UNCHANGED <<mc_components, mc_xml>>
             ELSE /\ mc_components' =
                        {to_component(Heap, c).component :
                            c \in visited_components}
                  /\ mc_xml' =
                        MarkForced(ForcedIds(Heap, properties),
                                   to_xml(Heap, mc_components'))
                  /\ Proceed
    /\ UNCHANGED <<heap_vars, prog_vars, id_counter, width, length,
                   placed_inputs, placed_outputs, additional_components,
                   properties, mc_optimize, source_mc, vehicle_mc, other_mc,
                   vehicle_xml,
                   optimizer_vars, resolve_vars, hist_vars>>

\* ---------------------------------------------------------------- handling.py
\* The microcontroller a vehicle holds, as the merge reads it: a list of
\* property objects with type, name and value v; a number carries its v as
\* the serializer writes it, a toggle may carry none.
VehicleValues == {{}, {0}, {1}}
VehicleObjects ==
    {[type |-> t, name |-> n, v |-> v] :
        t \in {"PropertyNumber", "PropertyToggle"}, n \in {"p", "q"},
        v \in VehicleValues}
    \ {[type |-> "PropertyNumber", name |-> n, v |-> {}] : n \in {"p", "q"}}
Vehicles ==
    {<<>>} \cup {<<a>> : a \in VehicleObjects}
    \cup {<<a, b>> : a, b \in VehicleObjects}

\* The place of the first property of the type with the name, or 0.
FirstNamed(source, component_type, name) ==
    LET found == {i \in 1..Len(source) : /\ source[i].type = component_type
                                         /\ source[i].name = name}
    IN IF found = {} THEN 0 ELSE CHOOSE i \in found : \A j \in found : i <= j

\* find_and_match_property without the test of line 126
find_and_match_any(target, source, component_type) ==
    {<<target_obj, source[FirstNamed(source, component_type, target_obj.name)]>> :
        target_obj \in
          {o \in target :
              /\ o.type = component_type
              /\ FirstNamed(source, component_type, o.name) # 0}}
\* find_and_match_property
find_and_match_property(target, source, component_type) ==
    {<<target_obj, source[FirstNamed(source, component_type, target_obj.name)]>> :
        target_obj \in
          {o \in target :
              /\ o.type = component_type
              /\ ~o.force_property
              /\ FirstNamed(source, component_type, o.name) # 0}}

\* merge_attributes for "v"
merge_attributes(target, source) ==
    IF source.v # {} THEN [target EXCEPT !.v = source.v]
    ELSE [target EXCEPT !.v = {}]
\* merge_number_properties for "v"
merge_number_properties(target, source) ==
    IF source.v # {} THEN [target EXCEPT !.v = source.v] ELSE target

\* The objects of pairs merged one way, the others as they are.
MergeEach(target, pairs, number) ==
    {IF \E pair \in pairs : pair[1] = o
       THEN LET pair == CHOOSE q \in pairs : q[1] = o
            IN IF number THEN merge_number_properties(o, pair[2])
               ELSE merge_attributes(o, pair[2])
     ELSE o : o \in target}
\* merge_properties: texts, numbers, toggles and sliders in turn (a dropdown
\* takes an index by its label; no program here creates one).
merge_properties(target, source) ==
    LET texts == MergeEach(target,
                     find_and_match_property(target, source, "PropertyText"),
                     FALSE)
        numbers == MergeEach(texts,
                     find_and_match_property(texts, source, "PropertyNumber"),
                     TRUE)
        toggles == MergeEach(numbers,
                     find_and_match_property(numbers, source, "PropertyToggle"),
                     FALSE)
    IN MergeEach(toggles,
                 find_and_match_property(toggles, source, "PropertySlider"),
                 TRUE)

\* replace_in_vehicle, lines 213-217, for the one microcontroller of a
\* vehicle: a copy of the compiled document merged with the vehicle's, and
\* the vehicle's replaced by it.
MergeProperties ==
    /\ Calling("merge_properties")
    /\ \E source \in Vehicles :
         /\ source_mc' = source
         /\ vehicle_mc' = merge_properties(mc_xml, source)
    /\ calls' = Tail(calls)
    /\ Proceed
    /\ UNCHANGED <<heap_vars, regs, nodes, id_counter, width, length,
                   placed_inputs, placed_outputs, additional_components,
                   properties, mc_optimize, mc_components, mc_xml, other_mc,
                   vehicle_xml, opt_vars, resolve_vars, hist_vars>>

\* _utils.BUILDER_IDENTIFIER, which _resolve_and_optimize (lines 244-248)
\* writes as the description of the data of every document it returns.
BUILDER_IDENTIFIER == "Built with sw_mc_builder version 1"
\* The names microcontrollers carry, in a program and in a vehicle.
McNames == {"one", "two"}
\* A microcontroller embedded in a vehicle: its name, the description of
\* its data ("": none) and its children, which are the property objects the
\* vehicle holds (source) or those of a compiled document (objs).
Embedded(name, desc, source) ==
    [name |-> name, desc |-> desc,
     children |-> [compiled |-> FALSE, source |-> source, objs |-> {}]]
EmbeddedMcs ==
    {Embedded(name, desc, source) :
        name \in McNames, desc \in {BUILDER_IDENTIFIER, "hand made", ""},
        source \in {<<>>, <<[type |-> "PropertyNumber", name |-> "p", v |-> {1}]>>}}
\* A vehicle file: absent, or a document with its root tag and the
\* microcontrollers embedded in its bodies.
NoVehicleFile == [is_file |-> FALSE, tag |-> "", mcs |-> <<>>]
VehicleFile(tag, mcs) == [is_file |-> TRUE, tag |-> tag, mcs |-> mcs]
VehicleFiles ==
    {NoVehicleFile, VehicleFile("vehicle", <<>>)}
    \cup {VehicleFile(tag, <<a>>) : tag \in {"vehicle", "microprocessor_definition"},
                                    a \in EmbeddedMcs}
    \cup {VehicleFile("vehicle", <<a, b>>) : a, b \in EmbeddedMcs}

\* An extraction by the name alone.
extract_mcs_by_name(file, relevant_names) ==
    IF file.tag # "vehicle" THEN [none |-> TRUE, relevant_mcs |-> {}]
    ELSE [none |-> FALSE,
          relevant_mcs |->
              {i \in 1..Len(file.mcs) : file.mcs[i].name \in relevant_names}]
\* extract_mcs_from_vehicle: nothing for a document that is no vehicle, else
\* the places of the embedded microcontrollers that carry a relevant name
\* and the builder's description.
extract_mcs_from_vehicle(file, relevant_names) ==
    IF file.tag # "vehicle" THEN [none |-> TRUE, relevant_mcs |-> {}]
    ELSE [none |-> FALSE,
          relevant_mcs |->
              {i \in 1..Len(file.mcs) :
                  /\ file.mcs[i].name \in relevant_names
                  /\ file.mcs[i].desc = BUILDER_IDENTIFIER}]

\* replace_in_vehicle, lines 213-217: the attributes and children of a copy
\* of the compiled document, merged with the embedded one, in its place.
ReplacedMc(mcs, vehicle_mc_) ==
    [name |-> vehicle_mc_.name, desc |-> BUILDER_IDENTIFIER,
     children |->
         [compiled |-> TRUE, source |-> <<>>,
          objs |-> merge_properties(mcs[vehicle_mc_.name],
                                    vehicle_mc_.children.source)]]
\* replace_in_vehicle: what the file holds afterwards and whether it has
\* been written.
replace_in_vehicle(file, mcs) ==
    LET result == extract_mcs_from_vehicle(file, DOMAIN mcs)
    IN IF ~file.is_file \/ result.none \/ result.relevant_mcs = {}
         THEN [written |-> FALSE, mcs |-> file.mcs]
       ELSE [written |-> TRUE,
             mcs |-> [i \in 1..Len(file.mcs) |->
                        IF i \in result.relevant_mcs
                          THEN ReplacedMc(mcs, file.mcs[i])
                        ELSE file.mcs[i]]]

\* handle_mcs, lines 252-254, for one vehicle and the one microcontroller
\* it has compiled, which carries the name the program gave it.
ReplaceInVehicle ==
    /\ Calling("replace_in_vehicle")
    /\ \E file \in VehicleFiles :
         LET mcs == [name \in {Head(calls).kind} |-> mc_xml]
             done == replace_in_vehicle(file, mcs)
         IN vehicle_xml' = [file |-> file, names |-> DOMAIN mcs,
                            mcs |-> done.mcs, written |-> done.written,
                            handled |-> TRUE]
    /\ calls' = Tail(calls)
    /\ Proceed
    /\ UNCHANGED <<heap_vars, regs, nodes, id_counter, width, length,
                   placed_inputs, placed_outputs, additional_components,
                   properties, mc_optimize, mc_components, mc_xml, source_mc,
                   vehicle_mc, other_mc, opt_vars, resolve_vars, hist_vars>>

\* ------------------------------------------------------------ the programs
\* The most writes a program makes to a composite wire.
MaxWrites == 2
\* The most inputs a function that is a candidate for inlining is given.
MaxFan == 5

NumberInput == NewOf("input", "Number")
BooleanInput == NewOf("input", "Boolean")
Optimize(rs) == OnWith("optimize_arithmetic", 0, [i \in 1..Len(rs) |-> AReg(rs[i])])
Opt(flag, call) == IF flag THEN <<call>> ELSE <<>>

\* Arithmetic over two inputs A (1) and B (2): a primitive (3) over inputs,
\* a primitive (4) over it, and the root (5); one of them may be pinned.
ExprPrograms ==
    {<<NumberInput, NumberInput, New(o1, <<a1, b1>>), New(o2, <<a2, b2>>),
       New("add", <<AReg(4), c>>)>>
     \o Opt(pin # 0, On("stop_optimization", pin)) \o <<Optimize(<<5>>)>> :
        o1 \in {"add", "sub"}, a1 \in {AReg(1), ANone}, b1 \in {AReg(1), AReg(2)},
        o2 \in {"sub", "mul"}, a2 \in {AReg(3), ANone},
        b2 \in {AReg(2), AReg(3), ANum(1)},
        c \in {AReg(3), AReg(1)}, pin \in {0, 3, 4}}

\* Fan-in: nine inputs (1..9), two or three functions over windows of them
\* (10, 11, 12) and a root function (13) over these and d of the inputs.
Window(s1, n) == [i \in 1..n |-> AReg(s1 + i - 1)]
FanPrograms ==
    {[i \in 1..9 |-> NumberInput]
     \o <<New("function", Window(1, n1)), New("function", Window(s2, n2)),
          New("function", Window(7, n3)),
          New("function", <<AReg(10), AReg(11)>>
                          \o Opt(n3 > 0, AReg(12)) \o Window(8, d)),
          Optimize(<<13>>)>> :
        n1 \in {2, MaxFan - 1, MaxFan}, s2 \in {1, 5}, n2 \in {2, 3, MaxFan - 1},
        n3 \in {0, 1, 3}, d \in 0..2}

\* Lowering: inputs A (1), B (2), a constant K (3), a Boolean input S (4),
\* a comparator (5), a Boolean primitive over it (6) and a switchbox (7).
LoweringPrograms ==
    {<<NumberInput, NumberInput, NewWith("constant_number", <<>>, 1, 0),
       BooleanInput>>
     \o Opt(pin = 3, On("stop_optimization", 3))
     \o <<NewWith(cmp, <<a, b>>, 0, 0), New(bop[1], bop[2])>>
     \o Opt(pin = 5, On("stop_optimization", 5))
     \o <<New("numerical_switchbox", <<AReg(1), AReg(2), AReg(sw)>>),
          Optimize(<<7>>)>> :
        cmp \in {"greater_than", "less_than", "equal"},
        a \in {AReg(1), AReg(3), ANum(0)}, b \in {AReg(2), AReg(3)},
        bop \in {<<"not_", <<AReg(5)>>>>, <<"and_", <<AReg(5), AReg(4)>>>>,
                 <<"or_", <<AReg(5), ABool(TRUE)>>>>},
        sw \in {5, 6}, pin \in {0, 3, 5}}

\* Cycles: a placeholder acc (2) replaced by a primitive (3) that reads it,
\* and a root (4) over that; an up/down counter over two Boolean inputs.
CyclePrograms ==
    {<<NumberInput, NewOf("placeholder", "Number"),
       New(o1, <<AReg(2), AReg(1)>>), OnWith("replace_producer", 2, <<AReg(3)>>),
       New(o2, <<AReg(r), AReg(1)>>), Optimize(<<root>>)>> :
        o1 \in {"add", "mul"}, o2 \in {"add", "sub"}, r \in {2, 3},
        root \in {2, 3, 4}}
    \cup
    {<<BooleanInput, BooleanInput,
       NewWith("up_down_counter", <<AReg(1), AReg(2), reset>>, 1, clamp_max),
       Optimize(<<3>>)>> :
        reset \in {ANone, AReg(1)}, clamp_max \in {0, 1}}

\* Composite writes: inputs A (1) and B (2), a composite input w (3), up to
\* MaxWrites writes to w, then the optimizer over w.
WriteCalls ==
    {Write(op, 3, IntItem(i), <<v>>) :
        op \in {"set", "setitem"}, i \in 1..2, v \in {AReg(1), AReg(2)}}
    \cup {Write(op, 3, SliceItem(ANum(1), ANum(2), ANone), <<AReg(2), AReg(1)>>) :
        op \in {"set", "setitem"}}
RECURSIVE WriteSeqs(_)
WriteSeqs(n) ==
    IF n = 0 THEN {<<>>}
    ELSE {<<>>} \cup {<<c>> \o ws : c \in WriteCalls, ws \in WriteSeqs(n - 1)}
CompositePrograms ==
    {<<NumberInput, NumberInput, NewOf("input", "Composite")>> \o ws
     \o <<Optimize(<<3>>)>> : ws \in WriteSeqs(MaxWrites) \ {<<>>}}

\* One write at an int index, inside and outside 1..32, of a Number or a
\* Boolean payload: a Number input N (1), a Boolean input S (2) and a
\* composite input w (3).
IndexPrograms ==
    {<<NumberInput, BooleanInput, NewOf("input", "Composite"),
       Write(op, 3, IntItem(i), <<v>>)>> :
        op \in {"set", "setitem"}, i \in {0, 1, 2, 3, NumChannels, NumChannels + 1},
        v \in {AReg(1), AReg(2), ANum(1), ABool(TRUE)}}

\* A microcontroller: inputs A (1) and B (2), properties P (3) and Q (4), a
\* wire U without producer (5), X = a + b (6), U replaced by X or not (a
\* cycle when X reads U); A and B placed or not, properties and a tooltip
\* added in some order, an output placed, its wire replaced afterwards or
\* not, the microcontroller compiled with or without the optimizer.
Tooltip(a) == OnWith("add_number_tooltip", 0, <<a, ANone>>)
Additional ==
    {<<>>, <<On("add_property", 3)>>,
     <<On("add_property", 3), Tooltip(AReg(6))>>,
     <<Tooltip(AReg(1)), On("add_property", 3)>>,
     <<On("add_property", 3), On("add_property", 4)>>,
     <<On("add_property", 4), On("add_property", 3), Tooltip(AReg(3))>>}
McProgram(u, ab, closed, placed, additional, out, late, stop) ==
    <<NumberInput, NumberInput, NewWith("property_number", <<>>, 1, 0),
      NewWith("property_number", <<>>, 0, 0), NewOf(u, "Number"),
      New("add", ab)>>
    \o Opt(closed, OnWith("replace_producer", 5, <<AReg(6)>>))
    \o [i \in 1..placed |-> At("place_input", i, i - 1, 0)]
    \o additional
    \o <<At("place_output", out, 2, 0)>>
    \o Opt(late, OnWith("replace_producer", 6, <<AReg(5)>>))
    \o Opt(stop, On("mc_stop_optimization", 0))
    \o <<On("compile", 0)>>
Operands ==
    {<<AReg(1), AReg(3)>>, <<AReg(1), AReg(2)>>, <<AReg(1), AReg(5)>>,
     <<AReg(4), AReg(3)>>}
McPrograms ==
    {McProgram(u, ab, FALSE, placed, additional, out, FALSE, FALSE) :
        u \in {"unconnected", "placeholder"}, ab \in Operands, placed \in 0..2,
        additional \in Additional, out \in {6, 1, 3, 5}}
    \cup
    {McProgram(u, ab, FALSE, 2, <<On("add_property", 3)>>, 6, late, stop) :
        u \in {"unconnected", "placeholder"}, ab \in Operands,
        late \in BOOLEAN, stop \in BOOLEAN}
    \cup
    {McProgram("placeholder", ab, TRUE, 2, additional, out, FALSE, stop) :
        ab \in {<<AReg(1), AReg(5)>>, <<AReg(5), AReg(1)>>},
        additional \in {<<>>, <<On("add_property", 3), Tooltip(AReg(6))>>},
        out \in {6, 5}, stop \in BOOLEAN}

\* Properties: an input A (1), the numbers p = 1 (2) and q = 0 (3), a toggle
\* by the name p (4) and A + p (5); force_property on some of them; A placed,
\* q and perhaps the toggle added, A + p the output; compiled, and merged
\* into a vehicle.
ForceCalls(forced) ==
    Opt(1 \in forced, On("force_property", 1))
    \o Opt(2 \in forced, On("force_property", 2))
    \o Opt(3 \in forced, On("force_property", 3))
    \o Opt(4 \in forced, On("force_property", 4))
    \o Opt(5 \in forced, On("force_property", 5))
PropertyPrograms ==
    {<<NumberInput, NewWith("property_number", <<>>, 1, 1),
       NewWith("property_number", <<>>, 0, 2),
       NewWith("property_toggle", <<>>, 1, 1),
       New("add", <<AReg(1), AReg(2)>>)>>
     \o ForceCalls(forced)
     \o <<At("place_input", 1, 0, 0), On("add_property", 3)>>
     \o Opt(toggle, On("add_property", 4))
     \o <<At("place_output", 5, 2, 0)>>
     \o Opt(stop, On("mc_stop_optimization", 0))
     \o <<On("compile", 0), On("merge_properties", 0)>> :
        forced \in SUBSET (1..5), toggle \in BOOLEAN, stop \in BOOLEAN}

\* Chains of composite writes by keyword: inputs A (1) and B (2), a composite
\* input base (3), and two to four writes (4..7), each to a channel of its
\* own over the write before it, the first over base; the optimizer over the
\* last.
ChainWrite(i) ==
    NewWith("composite_write_number",
            <<AReg(i + 2), IF i % 2 = 1 THEN AReg(1) ELSE AReg(2)>>, i, 0)
ChainPrograms ==
    {[i \in 1..n |-> IF i <= 3 THEN <<NumberInput, NumberInput,
                                       NewOf("input", "Composite")>>[i]
                     ELSE ChainWrite(i - 3)]
     \o <<Optimize(<<n>>)>> : n \in 5..7}

\* Wire.to for a port of each signal type, given a wire of each type (a
\* Number input (1), a Boolean input (2), a Composite input (3)), an int, a
\* bool or None.
ToPrograms ==
    {<<NumberInput, BooleanInput, NewOf("input", "Composite"),
       Call("to", "", st, 0, <<a>>, IntItem(0), 0, 0)>> :
        st \in {"Number", "Boolean", "Composite"},
        a \in {AReg(1), AReg(2), AReg(3), ANum(0), ANum(1), ABool(TRUE),
               ABool(FALSE), ANone}}

\* A division: inputs A (1), B (2) and S (3), the sum A + B (4), the two
\* outputs of a Divide of A or of the sum by B (5: the quotient, 6: divide by
\* zero), the AND of the second output and S (7), and the optimizer over one
\* of the three.
DividePrograms ==
    {<<NumberInput, NumberInput, BooleanInput, New("add", <<AReg(1), AReg(2)>>),
       OnWith("div", 0, <<a, AReg(2)>>), New("and_", <<AReg(6), AReg(3)>>),
       Optimize(<<root>>)>> :
        a \in {AReg(1), AReg(4)}, root \in {5, 6, 7}}

\* A threshold over the input A (1) as the switch signal of a switchbox (4),
\* read directly or through a NOT (3), or as the root itself.
ThresholdPrograms ==
    {<<NumberInput, NumberInput, NewWith("threshold", <<AReg(1)>>, 0, 1),
       New("not_", <<AReg(3)>>),
       New("numerical_switchbox", <<AReg(1), AReg(2), AReg(sw)>>),
       Optimize(<<root>>)>> :
        sw \in {3, 4}, root \in {3, 5}}

\* The optimizer called twice over the same root: arithmetic over two inputs,
\* the fan-in of functions over windows of nine inputs, a switchbox over a
\* comparator whose on value is an input or a sum, an up/down counter, and a
\* cycle through a placeholder.
RerunPrograms ==
    {<<NumberInput, NumberInput, New(o1, <<AReg(1), b1>>),
       New(o2, <<AReg(3), b2>>), New("add", <<AReg(4), c>>),
       Optimize(<<5>>), Optimize(<<5>>)>> :
        o1 \in {"add", "sub"}, b1 \in {AReg(1), AReg(2)}, o2 \in {"sub", "mul"},
        b2 \in {AReg(2), ANum(1)}, c \in {AReg(3), AReg(1)}}
    \cup
    {[i \in 1..9 |-> NumberInput]
     \o <<New("function", Window(1, n1)), New("function", Window(s2, 2)),
          New("function", Window(7, n3)),
          New("function", <<AReg(10), AReg(11)>>
                          \o Opt(n3 > 0, AReg(12)) \o Window(8, d)),
          Optimize(<<13>>), Optimize(<<13>>)>> :
        n1 \in {2, MaxFan}, s2 \in {1, 5}, n3 \in {0, 3}, d \in {0, 2}}
    \cup
    {<<NumberInput, NumberInput, New("add", <<AReg(1), AReg(2)>>),
       BooleanInput, NewWith(cmp, <<AReg(1), AReg(2)>>, 0, 0),
       New(bop[1], bop[2]),
       New("numerical_switchbox", <<on, AReg(2), AReg(sw)>>),
       Optimize(<<7>>), Optimize(<<7>>)>> :
        cmp \in {"greater_than", "equal"}, on \in {AReg(1), AReg(3)},
        bop \in {<<"not_", <<AReg(5)>>>>, <<"and_", <<AReg(5), AReg(4)>>>>},
        sw \in {5, 6}}
    \cup
    {<<BooleanInput, BooleanInput,
       NewWith("up_down_counter", <<AReg(1), AReg(2), reset>>, 1, clamp_max),
       Optimize(<<3>>), Optimize(<<3>>)>> :
        reset \in {ANone, AReg(1)}, clamp_max \in {0, 1}}
    \cup
    {<<NumberInput, NewOf("placeholder", "Number"),
       New(o1, <<AReg(2), AReg(1)>>), OnWith("replace_producer", 2, <<AReg(3)>>),
       Optimize(<<root>>), Optimize(<<root>>)>> :
        o1 \in {"add", "mul"}, root \in {2, 3}}

\* Gates: inputs A (1) and B (2), a Boolean input (3), two comparators (4, 5)
\* and the constant on (6); a gate over two of them (7) switches between A
\* and B (8).
GatePrograms ==
    {<<NumberInput, NumberInput, BooleanInput,
       NewWith("greater_than", <<AReg(1), AReg(2)>>, 0, 0),
       NewWith("less_than", <<AReg(1), ANum(0)>>, 0, 0),
       New("constant_on", <<>>),
       New(gate, <<AReg(4), b>>),
       New("numerical_switchbox", <<AReg(1), AReg(2), AReg(7)>>),
       Optimize(<<8>>)>> :
        gate \in {"xor", "nand", "nor", "or_", "and_"},
        b \in {AReg(5), AReg(3), AReg(6), ANone}}

\* Wide switch signals: seven inputs (1..7), a Boolean input (8), the
\* comparators 1 > 2, 3 > 4, 5 > 6 and 7 > 1 (9..12), their conjunctions over
\* four, six and seven inputs (13..15), and a switchbox between inputs 1 and
\* 2 (16) switched by one of them or by the Boolean input.
WidePrograms ==
    {[i \in 1..7 |-> NumberInput]
     \o <<BooleanInput,
          NewWith("greater_than", <<AReg(1), AReg(2)>>, 0, 0),
          NewWith("greater_than", <<AReg(3), AReg(4)>>, 0, 0),
          NewWith("greater_than", <<AReg(5), AReg(6)>>, 0, 0),
          NewWith("greater_than", <<AReg(7), AReg(1)>>, 0, 0),
          New("and_", <<AReg(9), AReg(10)>>),
          New("and_", <<AReg(13), AReg(11)>>),
          New("and_", <<AReg(14), AReg(12)>>),
          New("numerical_switchbox", <<AReg(1), AReg(2), AReg(sw)>>),
          Optimize(<<16>>)>> : sw \in {8, 14, 15}}

\* Counters at the limit of eight inputs: a Boolean input (1), its
\* conjunction with itself (2), and an up/down counter (4) that counts up and
\* down on 2 and is reset by the conjunction (3) of 2 with the input or with
\* itself.  Every lowering of the input makes a wire of its own, so that the
\* three signals lower to seven wires or to eight.
CounterPrograms ==
    {<<BooleanInput,
       New("and_", <<AReg(1), AReg(1)>>),
       New("and_", <<AReg(2), AReg(other)>>),
       NewWith("up_down_counter", <<AReg(2), AReg(2), AReg(3)>>, 1, 1),
       Optimize(<<4>>)>> : other \in {1, 2}}

\* src/testfile.py: ((A + B) - 5) * (A + B) over the inputs A (1) and B (2),
\* and the product of the sum with the difference, with an input, and of
\* two sums of an input with itself.
SimplePrograms ==
    {<<NumberInput, NumberInput, New("add", <<AReg(1), AReg(2)>>),
       New("sub", <<AReg(3), ANum(5)>>), New("mul", <<AReg(4), AReg(3)>>),
       Optimize(<<5>>)>>}
    \cup
    {<<NumberInput, NumberInput, New("add", <<AReg(1), a>>),
       New("sub", <<b, AReg(1)>>), New("mul", <<c, AReg(4)>>),
       Optimize(<<5>>)>> :
        a \in {AReg(1), AReg(2)}, b \in {AReg(2), AReg(3)},
        c \in {AReg(3), AReg(1)}}

\* The call with every register it names moved up by k.
Shift(call, k) ==
    [call EXCEPT !.args = [i \in DOMAIN @ |->
                              IF @[i].t = "reg" THEN AReg(@[i].v + k) ELSE @[i]]]
\* A graph built twice, and the optimizer run over the one root and then over
\* the other.
Twice(graph) ==
    graph \o [i \in 1..Len(graph) |-> Shift(graph[i], Len(graph))]
    \o <<Optimize(<<Len(graph)>>), Optimize(<<2 * Len(graph)>>)>>
\* Twins: a switchbox over a comparator of its two inputs; a switchbox over
\* the conjunction of two comparators of three inputs; a sum of sums; an
\* up/down counter.
TwinPrograms ==
    {Twice(<<NumberInput, NumberInput, NewWith(cmp, <<AReg(1), AReg(2)>>, 0, 0),
             New("numerical_switchbox", <<AReg(1), AReg(2), AReg(3)>>)>>) :
        cmp \in {"greater_than", "less_than"}}
    \cup
    {Twice(<<NumberInput, NumberInput, NumberInput,
             NewWith("greater_than", <<AReg(1), AReg(2)>>, 0, 0),
             NewWith("greater_than", <<AReg(3), AReg(1)>>, 0, 0),
             New("and_", <<AReg(4), AReg(5)>>),
             New("numerical_switchbox", <<AReg(1), AReg(2), AReg(6)>>)>>)}
    \cup
    {Twice(<<NumberInput, NumberInput, New("add", <<AReg(1), AReg(2)>>),
             New(o, <<AReg(3), AReg(1)>>)>>) : o \in {"add", "sub"}}
    \cup
    {Twice(<<BooleanInput, BooleanInput,
             NewWith("up_down_counter", <<AReg(1), AReg(2), ANone>>, 1, 0)>>)}

\* Placements: inputs A (1) and B (2) and the sum X (3); A or the output X
\* is placed at (0, 0), then an input or X as an input or the output X is
\* placed at a free, a taken or an outside position.
Positions == {<<0, 0>>, <<1, 0>>, <<5, 5>>, <<6, 0>>, <<0, -1>>, <<2, 6>>}
PlacementPrograms ==
    {<<NumberInput, NumberInput, New("add", <<AReg(1), AReg(2)>>),
       At(first, IF first = "place_input" THEN 1 ELSE 3, 0, 0),
       At(second[1], second[2], pos[1], pos[2])>> :
        first \in {"place_input", "place_output"},
        second \in {<<"place_input", 1>>, <<"place_input", 2>>,
                    <<"place_input", 3>>, <<"place_output", 3>>},
        pos \in Positions}

\* Two microcontrollers over the inputs A (1), B (2) and the sum X (3).
\* The first places A and an output; the second places A, before or after
\* B or alone, and an output; then both are compiled, in either order.
TwoMcPrograms ==
    {<<NumberInput, NumberInput, New("add", <<AReg(1), AReg(2)>>)>>
     \o first \o <<At("place_input", 1, 0, 0), At("place_output", out, 1, 0),
                   On("other_microcontroller", 0)>>
     \o second \o <<At("place_output", 1, 1, 1)>>
     \o (IF back THEN <<On("other_microcontroller", 0)>> ELSE <<>>)
     \o <<On("compile", 0), On("other_microcontroller", 0), On("compile", 0)>> :
        first \in {<<>>, <<At("place_input", 2, 1, 1)>>},
        out \in {1, 3},
        second \in {<<At("place_input", 1, 0, 0)>>,
                    <<At("place_input", 2, 0, 1), At("place_input", 1, 0, 0)>>,
                    <<At("place_input", 1, 0, 0), At("place_input", 2, 0, 1)>>},
        back \in BOOLEAN}

\* The input A (1) is placed at (0, 0); then an output is placed on a wire
\* (2) that a Placeholder still produces, at a free, a taken or an outside
\* position.
UnfinishedPlacements ==
    {<<NumberInput, NewOf("placeholder", "Number"), At("place_input", 1, 0, 0),
       At("place_output", 2, pos[1], pos[2])>> : pos \in Positions}

\* A microcontroller with the name given to it, over the input A (1) and a
\* number property (2), is compiled and written to a vehicle.
InVehicle(name) == Call("replace_in_vehicle", name, "", 0, <<>>, IntItem(0), 0, 0)
VehiclePrograms ==
    {<<NumberInput, NewWith("property_number", <<>>, 1, 1),
       New("add", <<AReg(1), AReg(2)>>), At("place_input", 1, 0, 0),
       On("add_property", 2), At("place_output", 3, 1, 0), On("compile", 0),
       InVehicle(name)>> : name \in McNames}

Programs ==
    ExprPrograms \cup FanPrograms \cup LoweringPrograms \cup CyclePrograms
    \cup CompositePrograms \cup ChainPrograms \cup IndexPrograms
    \cup ToPrograms
    \cup ThresholdPrograms
    \cup DividePrograms \cup RerunPrograms \cup PlacementPrograms
    \cup PropertyPrograms \cup TwinPrograms \cup GatePrograms
    \cup WidePrograms \cup CounterPrograms \cup SimplePrograms
    \cup TwoMcPrograms \cup UnfinishedPlacements \cup VehiclePrograms
    \cup McPrograms

\* ------------------------------------------------------- the specification
Init ==
    /\ comps = EmptyHeap.comps
    /\ wires = EmptyHeap.wires
    /\ markers = EmptyHeap.markers
    /\ calls \in Programs
    /\ regs = <<>>
    /\ pc = "script"
    /\ error = ""
    /\ nodes = <<>>
    /\ id_counter = 0
    /\ width = 2
    /\ length = 2
    /\ placed_inputs = {}
    /\ placed_outputs = <<>>
    /\ additional_components = <<>>
    /\ properties = {}
    /\ mc_optimize = TRUE
    /\ mc_components = {}
    /\ mc_xml = {}
    /\ source_mc = <<>>
    /\ vehicle_mc = {}
    /\ other_mc = NewMicrocontroller
    /\ vehicle_xml = [file |-> NoVehicleFile, names |-> {}, mcs |-> <<>>,
                      written |-> FALSE, handled |-> FALSE]
    /\ components = <<>>
    /\ optimized_components = NoMemo
    /\ in_progress = {}
    /\ stack = <<>>
    /\ retval = 0
    /\ opt_wires = <<>>
    /\ root_idx = 1
    /\ to_visit = {}
    /\ visited = {}
    /\ current = 0
    /\ input_idx = 1
    /\ return_to = "script"
    /\ steps = 0
    /\ resolve_to_visit = {}
    /\ visited_nodes = {}
    /\ visited_components = {}
    /\ next_id = 0
    /\ before = EmptyHeap
    /\ last_write = NoWrites
    /\ rebound = FALSE
    /\ after = EmptyHeap
    /\ script = calls
    /\ rerun = FALSE

Next ==
    \/ NewComponent
    \/ NewDivide
    \/ WireTo
    \/ StopOptimization
    \/ ForceProperty
    \/ ReplaceProducer
    \/ SetWire
    \/ SetItem
    \/ PlaceInput
    \/ PlaceOutput
    \/ OtherMicrocontroller
    \/ ReplaceInVehicle
    \/ AddProperty
    \/ AddNumberTooltip
    \/ McStopOptimization
    \/ OptimizeArithmetic
    \/ Compile
    \/ OptimizeRoot
    \/ OptimizeRootRet
    \/ FindEnter
    \/ FindLoopRet
    \/ FindRewriteRet
    \/ ApplyPop
    \/ ApplyInput
    \/ ApplyRet
    \/ ApplyDone
    \/ ResolveStart
    \/ ResolveVisit
    \/ ResolveFinish
    \/ MergeProperties

Spec == Init /\ [][Next]_vars

\* ---------------------------------------------------------------- the graph
\* The producers of the inputs of a producer.
Feeds(H, p) ==
    IF p.k = "ComponentWrapper"
      THEN {H.wires[H.comps[p.id].inputs[name]].producer :
               name \in DOMAIN H.comps[p.id].inputs}
    ELSE {}
RECURSIVE Reach(_, _, _)
Reach(H, frontier, seen) ==
    IF frontier \subseteq seen THEN seen
    ELSE Reach(H, UNION {Feeds(H, p) : p \in frontier \ seen},
               seen \cup frontier)
\* The producers the roots reach through the inputs, the roots included.
Reachable(H, roots) == Reach(H, roots, {})
\* No component among them reads its own output.
Acyclic(H, roots) ==
    \A p \in Reachable(H, roots) : p \notin Reachable(H, Feeds(H, p))

\* The kinds whose output is a function of their inputs at the same tick.
EvaluableKinds ==
    {"Add", "Subtract", "Multiply", "Abs", "Clamp", "ConstantNumber",
     "PropertyNumber", "ArithmeticFunction8In", "BooleanFunction8In",
     "NumericalSwitchbox", "Equal", "GreaterThan", "LessThan", "Threshold",
     "AND", "OR", "XOR", "NAND", "NOR", "NOT", "ConstantOn"}
\* The subgraph rooted at the wire w has a value: it is acyclic and made of
\* evaluable components, input markers and Unconnected.
Evaluable(H, w) ==
    /\ Acyclic(H, {H.wires[w].producer})
    /\ \A p \in Reachable(H, {H.wires[w].producer}) :
          \/ p.k \in {"InputPlaceholder", "Unconnected"}
          \/ p.k = "ComponentWrapper" /\ H.comps[p.id].kind \in EvaluableKinds

Truth(b) == IF b THEN 1 ELSE 0
RECURSIVE WireVal(_, _, _, _)
\* The value of the component c, In(port) being the value of its input.
CompVal(H, c, env, fuel) ==
    LET In(port) == WireVal(H, c.inputs[port], env, fuel)
        a == In("a_input")
        b == In("b_input")
    IN CASE c.kind = "Add" -> a + b
         [] c.kind = "Subtract" -> a - b
         [] c.kind = "Multiply" -> a * b
         [] c.kind = "Abs" -> AbsV(In("number_input"))
         [] c.kind = "Clamp" -> MaxV(c.min, MinV(c.max, In("number_input")))
         [] c.kind \in {"ConstantNumber", "PropertyNumber"} -> c.value
         [] IsFunction(c) ->
              EvalExpr(c.function,
                       [name \in SeqRange(Names) |-> In(VarPort(name))])
         [] c.kind = "NumericalSwitchbox" ->
              IF In("switch_signal_input") # 0 THEN In("on_value_input")
              ELSE In("off_value_input")
         [] c.kind = "Equal" -> Truth(AbsV(a - b) <= c.value)
         [] c.kind = "GreaterThan" -> Truth(a > b)
         [] c.kind = "LessThan" -> Truth(a < b)
         [] c.kind = "Threshold" ->
              Truth(c.min <= In("number_input") /\ In("number_input") <= c.max)
         [] c.kind = "AND" -> Truth(a # 0 /\ b # 0)
         [] c.kind = "OR" -> Truth(a # 0 \/ b # 0)
         [] c.kind = "XOR" -> Truth((a # 0) # (b # 0))
         [] c.kind = "NAND" -> Truth(~(a # 0 /\ b # 0))
         [] c.kind = "NOR" -> Truth(~(a # 0 \/ b # 0))
         [] c.kind = "NOT" -> Truth(a = 0)
         [] c.kind = "ConstantOn" -> 1
         [] OTHER -> -99
\* The value on the wire w when the input markers have the values env: an
\* Unconnected wire reads 0 (false); a Boolean marker is on when its value
\* is positive.  fuel bounds the depth of the evaluation.
WireVal(H, w, env, fuel) ==
    LET producer == H.wires[w].producer IN
    IF fuel = 0 THEN -99
    ELSE IF producer.k = "Unconnected" THEN 0
    ELSE IF producer.k = "InputPlaceholder"
      THEN IF H.wires[w].wire_type = "Boolean"
             THEN Truth(env[producer.id] > 0)
           ELSE env[producer.id]
    ELSE IF producer.k = "ComponentWrapper"
      THEN CompVal(H, H.comps[producer.id], env, fuel - 1)
    ELSE -99
\* The assignments of values to the input markers.
Envs == [1..Len(markers) -> (-MaxVal)..MaxVal]

\* optimize_arithmetic has been called, and it has returned.
OptimizerStarted == before # EmptyHeap
OptimizerReturned ==
    OptimizerStarted /\ pc \in {"script", "resolve", "resolve_loop"}
\* The producers of the wires the optimizer was given.
Roots(H) == {H.wires[opt_wires[i]].producer : i \in 1..Len(opt_wires)}
\* The components the optimizer made.
NewComponents == (Len(before.comps) + 1)..Len(comps)

\* _resolve has run to its end: it returned, or it raised.
ResolverDone == next_id > 0 /\ pc \in {"script", "error"}
ResolverSucceeded == next_id > 0 /\ pc = "script"
\* What _resolve starts from: the producers of the placed outputs and of the
\* inputs of the additional components.
ResolveRoots ==
    {wires[placed_outputs[i].wire].producer : i \in 1..Len(placed_outputs)}
    \cup UNION {Feeds(Heap, CW(c)) : c \in SeqRange(additional_components)}
UnplacedReached ==
    \E p \in Reachable(Heap, ResolveRoots) :
        p.k = "InputPlaceholder" /\ p.id \notin placed_inputs
PlaceholderReached == Placeholder \in Reachable(Heap, ResolveRoots)

\* ------------------------------------------------------------------ claims
\* C1: the inliner preserves observable semantics.  For every Number wire
\* given to optimize_arithmetic whose subgraph has a value, that value is
\* the same before and after the optimization, for every assignment of
\* values to the input markers, Unconnected inputs reading 0.
C1_SemanticsPreserved ==
    OptimizerReturned =>
        \A i \in 1..Len(opt_wires) :
            (/\ before.wires[opt_wires[i]].wire_type = "Number"
             /\ Evaluable(before, opt_wires[i]))
            => \A env \in Envs :
                   WireVal(before, opt_wires[i], env, Len(before.comps) + 1)
                   = WireVal(Heap, opt_wires[i], env, Len(comps) + 1)

\* C2: every fused function has at most 8 connected inputs; after the
\* budget loop the merge never needs a ninth name (popping the empty pool is
\* the IndexError) and never gives a port that holds a wire another wire.
C2_FanInBounded ==
    /\ error # "IndexError"
    /\ ~rebound
    /\ \A c \in 1..Len(comps) :
          IsFunction(comps[c]) => get_input_count(Heap, c) <= InputBudget
\* The budget loop has dropped a candidate, which is still an input of the
\* fused function, and the function reads every wire the budget allows.
C2_CandidateDropped ==
    /\ OptimizerReturned
    /\ \E c \in NewComponents :
          /\ CW(c) \in Roots(Heap)
          /\ get_input_count(Heap, c) = InputBudget
          /\ \E p \in Feeds(Heap, CW(c)) :
                p.k = "ComponentWrapper" /\ IsFunction(comps[p.id])

\* The pinned components of a heap.
Pinned(H) == {c \in 1..Len(H.comps) : ~H.comps[c].optimize}
\* C3: a component with optimize = False is kept.  After the optimization
\* every wire it produced still has it as producer, it is unchanged, and
\* where the graph under the optimized wires read it, it still does: its
\* value has not been folded into a consumer.
C3_PinnedKept ==
    OptimizerReturned =>
        \A P \in Pinned(before) :
            /\ \A w \in 1..Len(before.wires) :
                  before.wires[w].producer = CW(P) => wires[w].producer = CW(P)
            /\ comps[P].kind = before.comps[P].kind
            /\ comps[P].inputs = before.comps[P].inputs
            /\ CW(P) \in Reachable(before, Roots(before))
                  => CW(P) \in Reachable(Heap, Roots(Heap))

\* find_optimizations is not entered for a component it is working on.
NoReentry ==
    /\ \A i, j \in 1..Len(stack) :
          i # j => stack[i].component # stack[j].component
    /\ \A i \in 1..Len(stack) :
          stack[i].pc = "enter" => stack[i].component \notin in_progress
\* Between two calls of find_optimizations from the outside nothing is in
\* progress.
InProgressEmptied == (stack = <<>> /\ pc # "error") => in_progress = {}
\* A result an Optimizer has recorded stays as it is; a call of
\* optimize_arithmetic begins with a new Optimizer.
RecordedOnce ==
    pc' = "roots" \/
    \A c \in DOMAIN optimized_components :
        /\ c \in DOMAIN optimized_components'
        /\ optimized_components'[c] = optimized_components[c]
RECURSIVE Ports(_, _)
\* The input ports of the first n components, and one for each component.
Ports(H, n) ==
    IF n = 0 THEN 0
    ELSE Cardinality(DOMAIN H.comps[n].inputs) + 1 + Ports(H, n - 1)
\* The steps a run may take on the graph at hand: the loops of apply, of
\* find_optimizations and of _resolve each look at a port of a component a
\* bounded number of times.
StepLimit ==
    4 * (Len(opt_wires) + Len(placed_outputs) + Ports(Heap, Len(comps)))
C5_UnplacedInputFails ==
    ResolverDone => ((pc = "error" /\ error = "ValueError") <=> UnplacedReached)
\* The resolver has failed for an input marker that only an additional
\* component reaches.
C5_UnplacedUnderTooltip ==
    /\ ResolverDone
    /\ error = "ValueError"
    /\ ~\E p \in Reachable(Heap, {wires[placed_outputs[i].wire].producer :
                                     i \in 1..Len(placed_outputs)}) :
           p.k = "InputPlaceholder" /\ p.id \notin placed_inputs

\* C6: compilation fails when a Placeholder is still the producer of a
\* placed output or of an input of a reachable component when the resolver
\* runs, and no component is emitted then.
C6_PlaceholderFails ==
    (ResolverDone /\ PlaceholderReached)
    => (pc = "error" /\ mc_components = {})
\* The resolver has failed for a Placeholder under a placed output.
C6_PlaceholderUnderOutput ==
    /\ ResolverDone
    /\ PlaceholderReached
    /\ error = "RuntimeError"

\* C7: after a successful resolve the emitted components have pairwise
\* distinct ids, each greater than the id of every placed node.
C7_IdsDistinct ==
    ResolverSucceeded =>
        /\ {m.wrapper : m \in mc_components} = visited_components
        /\ \A m1, m2 \in mc_components :
              m1.wrapper # m2.wrapper => m1.component_id # m2.component_id
        /\ \A m \in mc_components : \A i \in 1..Len(nodes) :
              m.component_id > nodes[i].component_id
\* A resolve has succeeded in which a declared property is also the
\* producer of an input of another component.
C7_PropertyAlsoReached ==
    /\ ResolverSucceeded
    /\ \E c \in SeqRange(additional_components) :
          \E d \in visited_components : CW(c) \in Feeds(Heap, CW(d))

\* C8: after the resolve the ids of the additional components increase in
\* the order the components were added.
C8_DeclarationOrder ==
    ResolverSucceeded =>
        \A i, j \in 1..Len(additional_components) :
            i < j => comps[additional_components[i]].component_id
                     < comps[additional_components[j]].component_id

\* The id of a producer, and whether the document holds it.
ProducerId(p) ==
    IF p.k = "ComponentWrapper" THEN comps[p.id].component_id
    ELSE markers[p.id].component_id
Emitted(p) ==
    IF p.k = "ComponentWrapper"
      THEN \E m \in mc_components :
              m.wrapper = p.id /\ m.component_id = ProducerId(p)
    ELSE /\ p.id \in placed_inputs
         /\ \E i \in 1..Len(nodes) :
               nodes[i].mode = "Input" /\ nodes[i].name = p.id
\* The input of the node n names the producer p, which is emitted.
BoundTo(n, p) ==
    /\ p.k \in {"ComponentWrapper", "InputPlaceholder"}
    /\ ~n.input.none
    /\ n.input.component_id = ProducerId(p)
    /\ Emitted(p)
\* C9: after the resolve the input of every placed output node is non-null
\* and names the producer its wire has after the optimization, which is
\* emitted or a placed input.
C9_OutputsBound ==
    ResolverSucceeded =>
        \A i \in 1..Len(placed_outputs) :
            BoundTo(nodes[placed_outputs[i].node],
                    wires[placed_outputs[i].wire].producer)
\* C9, by the kind of the wire: after the resolve the input of every placed
\* output node whose wire has a producer is non-null and names that producer,
\* which is emitted or a placed input; the input of an output node placed on
\* an Unconnected wire is null.
C9_ConnectedOutputsBound ==
    ResolverSucceeded =>
        \A i \in 1..Len(placed_outputs) :
            IF wires[placed_outputs[i].wire].producer = Unconnected
              THEN nodes[placed_outputs[i].node].input.none
            ELSE BoundTo(nodes[placed_outputs[i].node],
                         wires[placed_outputs[i].wire].producer)
\* An output is bound to a component the optimizer made.
C9_OptimizedOutputBound ==
    /\ ResolverSucceeded
    /\ \E i \in 1..Len(placed_outputs) :
          /\ wires[placed_outputs[i].wire].producer.k = "ComponentWrapper"
          /\ wires[placed_outputs[i].wire].producer.id \in NewComponents
          /\ ~nodes[placed_outputs[i].node].input.none

RECURSIVE ChannelSource(_, _, _, _)
\* Where channel i of the composite wire w comes from: the producer of the
\* channel's input of the nearest static composite write that has one
\* (written), or the producer under the chain of writes.
ChannelSource(H, w, i, fuel) ==
    LET producer == H.wires[w].producer IN
    IF /\ fuel > 0
       /\ producer.k = "ComponentWrapper"
       /\ IsCompositeWrite(H.comps[producer.id])
       /\ H.comps[producer.id].start_channel = 1
      THEN IF H.wires[H.comps[producer.id].inputs[ChannelPort(i)]].producer
                  # Unconnected
             THEN [written |-> TRUE,
                   producer |->
                       H.wires[H.comps[producer.id].inputs[ChannelPort(i)]]
                           .producer]
           ELSE ChannelSource(H, H.comps[producer.id]
                                     .inputs["composite_signal_input"],
                              i, fuel - 1)
    ELSE [written |-> FALSE, producer |-> producer]
\* C10: last write wins.  After the writes and the optimization, a channel
\* comes from the producer of the value written to it last, and a channel
\* never written from the composite signal the writes started from.
C10_LastWriteWins ==
    (OptimizerReturned /\ last_write.r # 0) =>
        \A i \in 1..NumChannels :
            ChannelSource(Heap, regs[last_write.r], i, Len(comps))
            = IF last_write.channel[i] = Unwritten
                THEN [written |-> FALSE, producer |-> last_write.base]
              ELSE [written |-> TRUE,
                    producer |-> wires[last_write.channel[i].v].producer]

\* The component the wire of the register written last has as producer.
WrittenComponent == comps[wires[regs[last_write.r]].producer.id]
\* C11: after w.set(i, x) or w[i] = x with an int i in 1..32, w is produced
\* by a composite write, of the number kind for a Number payload and of the
\* boolean kind for a Boolean one, whose channel i input is x, whose composite
\* input has the producer w had before, and whose other 31 channel inputs
\* are Unconnected.
C11_IndexWrite ==
    (/\ pc = "script"
     /\ last_write.r # 0
     /\ ~last_write.item.slice
     /\ last_write.value[1].t = "wire"
     /\ ~OptimizerStarted)
    => /\ wires[regs[last_write.r]].producer.k = "ComponentWrapper"
       /\ WrittenComponent.kind =
              (IF wires[last_write.value[1].v].wire_type = "Number"
                 THEN "CompositeWriteNumber" ELSE "CompositeWriteBoolean")
       /\ wires[WrittenComponent.inputs["composite_signal_input"]].producer
              = last_write.prev
       /\ \A i \in 1..NumChannels :
              IF i = last_write.item.start.v
                THEN WrittenComponent.inputs[ChannelPort(i)]
                         = last_write.value[1].v
              ELSE wires[WrittenComponent.inputs[ChannelPort(i)]].producer
                       = Unconnected

\* The components the roots reached when the run at hand began.
ReachedBefore ==
    {p.id : p \in {q \in Reachable(before, Roots(before)) :
                      q.k = "ComponentWrapper"}}
\* C12: a second run of optimize_arithmetic over the same root wires, on the
\* graph the first run left, is a fixed point: every root wire keeps its
\* producer, and every component the roots reached keeps its function body,
\* its input bindings and the producers of its input wires.
C12_FixedPoint ==
    (OptimizerReturned /\ rerun)
    => /\ Roots(Heap) = Roots(before)
       /\ \A i \in 1..Len(opt_wires) :
             wires[opt_wires[i]].producer = before.wires[opt_wires[i]].producer
       /\ \A c \in ReachedBefore :
             /\ comps[c] = before.comps[c]
             /\ \A name \in DOMAIN comps[c].inputs :
                   wires[comps[c].inputs[name]].producer
                       = before.wires[comps[c].inputs[name]].producer

\* optimize_arithmetic has raised: the exception left find_optimizations.
OptimizerRaised == pc = "error" /\ stack # <<>>
\* C13: the optimizer never raises: on every graph optimize_arithmetic runs to
\* its end without an exception, and a component no rewrite applies to is
\* returned as it is.
C13_NeverRaises == ~OptimizerRaised

\* The signal type the constructor of a component of the kind gives the
\* wire of its output at node_index ("None": no such output).
BooleanKinds ==
    {"Equal", "GreaterThan", "LessThan", "Threshold", "AND", "OR", "XOR",
     "NAND", "NOR", "NOT", "ConstantOn", "BooleanFunction8In"}
DeclaredOutput(kind, node_index) ==
    IF kind = "Divide" /\ node_index = 1 THEN "Boolean"
    ELSE IF node_index # 0 \/ kind = "TooltipNumber" THEN "None"
    ELSE IF kind \in BooleanKinds THEN "Boolean"
    ELSE IF kind \in {"CompositeWriteNumber", "CompositeWriteBoolean"}
      THEN "Composite"
    ELSE "Number"
\* The wire w has the type its producer declares.
WellTyped(H, w) ==
    H.wires[w].producer.k = "ComponentWrapper"
    => H.wires[w].wire_type
         = DeclaredOutput(H.comps[H.wires[w].producer.id].kind,
                          H.wires[w].node_index)
\* The wires the roots reach: the root wires and the input wires of the
\* components reached.
ReachedWires(H) ==
    SeqRange(opt_wires)
    \cup UNION {SeqRange(InputWires(H, p.id)) :
                  p \in {q \in Reachable(H, Roots(H)) : q.k = "ComponentWrapper"}}
\* The signal type of a function body: that of its outermost operator.
BodyType(e) ==
    IF e.op \in {"&", "|", "^", "!", "bool"} THEN "Boolean"
    ELSE IF e.op = "var" THEN "Any"
    ELSE "Number"
RECURSIVE BodyOf(_, _)
\* The body e has the signal type: so has every operand of its operators.
BodyOf(e, signal_type) ==
    /\ BodyType(e) \in {signal_type, "Any"}
    /\ e.op \in {"var", "num", "bool"}
       \/ \A i \in 1..Len(e.args) : BodyOf(e.args[i], signal_type)
\* The fused function c reads wires of its own type only, and so is its body.
FunctionTyped(H, c) ==
    LET signal_type ==
            IF c.kind = "ArithmeticFunction8In" THEN "Number" ELSE "Boolean"
    IN /\ \A name \in DOMAIN c.inputs :
             H.wires[c.inputs[name]].wire_type = signal_type
       /\ BodyOf(c.function, signal_type)
\* C14: the wire_type of a wire is the output type its producer declares at
\* the node_index of the wire, for every wire the constructors and operators
\* made and, after the inliner has run, for every wire the roots reach, the
\* two outputs of a Divide included; a fused function reached is given no
\* input wire and no inlined body of the other signal type.
C14_WireTypes ==
    /\ (pc = "script" /\ ~OptimizerStarted)
       => \A w \in 1..Len(wires) : WellTyped(Heap, w)
    /\ OptimizerReturned
       => /\ \A w \in ReachedWires(Heap) : WellTyped(Heap, w)
          /\ \A p \in Reachable(Heap, Roots(Heap)) :
                (p.k = "ComponentWrapper" /\ IsFunction(comps[p.id]))
                => FunctionTyped(Heap, comps[p.id])

\* The wire Wire.to has returned: the one the next register holds.
Returned == regs'[Len(regs) + 1]
ReturnedComponent == comps'[wires'[Returned].producer.id]
\* Wire.to has returned a wire that was not there before.
ReturnedNew ==
    /\ pc' = "script"
    /\ Len(regs') = Len(regs) + 1
    /\ Returned = Len(wires) + 1
ReturnedUnconnected(signal_type) ==
    /\ pc' = "script"
    /\ Len(regs') = Len(regs) + 1
    /\ wires'[Returned].producer = Unconnected
    /\ wires'[Returned].wire_type = signal_type
TypeErrorRaised == pc' = "error" /\ error' = "TypeError" /\ regs' = regs
\* The table of Wire.to for the port type signal_type and the value arg.
ToTable(signal_type, arg) ==
    IF arg.t = "wire"
      THEN IF wires[arg.v].wire_type = signal_type
             THEN pc' = "script" /\ regs' = Append(regs, arg.v)
           ELSE TypeErrorRaised
    ELSE IF arg.t = "num" /\ signal_type = "Number"
      THEN /\ ReturnedNew
           /\ wires'[Returned].wire_type = "Number"
           /\ ReturnedComponent.kind = "ConstantNumber"
           /\ ReturnedComponent.value = arg.v
    ELSE IF arg.t = "bool" /\ signal_type = "Boolean"
      THEN IF arg.v = 1
             THEN /\ ReturnedNew
                  /\ wires'[Returned].wire_type = "Boolean"
                  /\ ReturnedComponent.kind = "ConstantOn"
           ELSE ReturnedUnconnected("Boolean")
    ELSE IF arg.t = "none" THEN ReturnedUnconnected(signal_type)
    ELSE TypeErrorRaised
\* C15: Wire.to for a port of type T passes a wire of type T through as the
\* same object and raises a type error for a wire of another type; an int
\* with T = Number becomes a new ConstantNumber wire, true with T = Boolean a
\* new ConstantOn wire, false with T = Boolean and None with any T an
\* Unconnected wire of type T; every other combination raises a type error.
C15_Coercion ==
    [][Calling("to")
       => ToTable(Head(calls).st, ArgOf(Head(calls).args[1]))]_vars

\* The component c of the heap H is acc + x for a placeholder acc that it has
\* replaced: an Add that reads its own output and an input marker.
SelfAdding(H, c) ==
    /\ H.comps[c].kind = "Add"
    /\ H.wires[H.comps[c].inputs["a_input"]].producer = CW(c)
    /\ H.wires[H.comps[c].inputs["b_input"]].producer.k = "InputPlaceholder"
\* The emitted component f is a fused function that reads itself and,
\* besides, the producer x only.
FusedOver(f, x) ==
    /\ comps[f].kind = "ArithmeticFunction8In"
    /\ \E name \in DOMAIN comps[f].inputs :
          /\ wires[comps[f].inputs[name]].producer = CW(f)
          /\ {wires[comps[f].inputs[other]].producer :
                 other \in DOMAIN comps[f].inputs \ {name}} \ {Unconnected}
             = {x}
\* C16: a cycle made by acc.replace_producer(acc + x) on a placeholder acc
\* resolves without error, and after the optimization the emitted graph holds
\* a fused function one input of which reads the function itself and whose
\* only other input is x.
C16_CycleFused ==
    \A c \in 1..Len(before.comps) :
        (ResolverDone /\ OptimizerStarted /\ SelfAdding(before, c)
         /\ CW(c) \in Roots(before))
        => /\ ResolverSucceeded
           /\ \E m \in mc_components :
                 FusedOver(m.wrapper,
                           before.wires[before.comps[c].inputs["b_input"]].producer)

RECURSIVE Chain(_, _, _)
\* The composite writes that chain from the component downwards: the write
\* itself and, while the condition of the merge holds, the write that feeds
\* its composite input.
Chain(H, component, fuel) ==
    IF fuel > 0 /\ ChainsWith(H, component)
      THEN {component}
           \cup Chain(H, H.wires[H.comps[component].inputs
                                    ["composite_signal_input"]].producer.id,
                      fuel - 1)
    ELSE {component}
\* The inputs of components that read the output of the component.
Readers(H, component) ==
    UNION {{<<d, name>> :
               name \in {n \in DOMAIN H.comps[d].inputs :
                            H.wires[H.comps[d].inputs[n]].producer
                                = CW(component)}} :
           d \in 1..Len(H.comps)}
\* The optimizer was given the one wire w, the end of a chain of two or more
\* optimizable static composite writes of one kind, each of which but the
\* last is read by the next one only.
ChainGiven(w) ==
    /\ opt_wires = <<w>>
    /\ before.wires[w].producer.k = "ComponentWrapper"
    /\ before.comps[before.wires[w].producer.id].optimize
    /\ ChainsWith(before, before.wires[w].producer.id)
    /\ \A c \in Chain(before, before.wires[w].producer.id, Len(before.comps))
                \ {before.wires[w].producer.id} :
          Cardinality(Readers(before, c)) = 1
\* C17: a chain of optimizable composite writes of the same kind at start
\* channel 1, each feeding the composite input of the next and read nowhere
\* else, is coalesced into one composite write: every channel a write of
\* the chain wrote is an input of that one write, and its composite input is
\* the base under the chain; so for two writes and for three or more.
C17_ChainCoalesced ==
    \A w \in 1..Len(before.wires) :
        (OptimizerReturned /\ ChainGiven(w))
        => /\ wires[w].producer.k = "ComponentWrapper"
           /\ IsCompositeWrite(comps[wires[w].producer.id])
           /\ \A i \in 1..NumChannels :
                 ChannelSource(Heap, w, i, 1)
                 = ChannelSource(before, w, i,
                       Cardinality(Chain(before, before.wires[w].producer.id,
                                         Len(before.comps))))

\* A node is at the position; the position is outside the grid of 6 by 6.
Occupied(x, y) == \E i \in 1..Len(nodes) : nodes[i].x = x /\ nodes[i].y = y
Outside(x, y) == x < 0 \/ x > 5 \/ y < 0 \/ y > 5
\* The call at hand is a placement the microcontroller has to reject.
PlacementRejected ==
    \/ /\ Calling("place_input")
       /\ \/ wires[regs[Head(calls).r]].producer.k # "InputPlaceholder"
          \/ wires[regs[Head(calls).r]].producer.id \in placed_inputs
          \/ Occupied(Head(calls).x, Head(calls).y)
          \/ Outside(Head(calls).x, Head(calls).y)
    \/ /\ Calling("place_output")
       /\ \/ Occupied(Head(calls).x, Head(calls).y)
          \/ Outside(Head(calls).x, Head(calls).y)
\* C18: place_input with an input that is already placed or with a wire no
\* input marker produces, and place_input or place_output at a position
\* that is taken or outside the 6x6 grid, raise an error and change
\* nothing: no node is added, no id is given, the placed inputs and outputs
\* and the size of the microcontroller stay as they are.
C18_RejectedPlacement ==
    [][PlacementRejected
       => /\ pc' = "error"
          /\ error' \in {"TypeError", "ValueError"}
          /\ UNCHANGED <<nodes, id_counter, width, length, placed_inputs,
                         placed_outputs, markers>>]_vars
\* A placement on a microcontroller that holds the node of an input has been
\* rejected, and the node is still the only one.
C18_RejectedAfterPlacement ==
    /\ pc = "error"
    /\ error = "ValueError"
    /\ calls = <<>>
    /\ next_id = 0
    /\ ~OptimizerStarted
    /\ placed_inputs # {}
    /\ Len(nodes) = 1

\* ------------------------------------------------------------------- C19
\* A compiled microcontroller has been merged into a vehicle.
MergedIntoVehicle == vehicle_mc # {}
\* The component an emitted object stands for.
EmittedFor(obj) == CHOOSE m \in mc_components : m.component_id = obj.id
\* The object stands for a property whose force_property flag is set.
FlaggedProperty(obj) ==
    /\ EmittedFor(obj).kind \in PROPERTIES
    /\ comps[EmittedFor(obj).wrapper].force_property
\* The value the object was compiled with.
CompiledValue(obj) == {comps[EmittedFor(obj).wrapper].value}
\* The vehicle's properties of the kind and the name of the object.
SameNamed(obj) ==
    {i \in 1..Len(source_mc) : /\ source_mc[i].type = obj.type
                               /\ source_mc[i].name = obj.name}
TwinSize ==
    IF /\ Len(script) >= 4
       /\ Len(script) % 2 = 0
       /\ \A i \in 1..(Len(script) - 2) : script[i].op = "new"
       /\ script = Twice(SubSeq(script, 1, (Len(script) - 2) \div 2))
      THEN (Len(script) - 2) \div 2
    ELSE 0
TwinRan == TwinSize > 0 /\ calls = <<>> /\ pc = "script"
RECURSIVE SameWire(_, _, _, _)
\* The wires are the same wire of the two graphs: the same register of the
\* one and of the other, the results themselves, no wire at all, or the
\* outputs of the same component over the same wires (to the depth fuel).
SameWire(w1, w2, k, fuel) ==
    \/ \E i \in 1..k : w1 = regs[i] /\ w2 = regs[i + k]
    \/ /\ wires[w1].producer = wires[regs[k]].producer
       /\ wires[w2].producer = wires[regs[2 * k]].producer
    \/ wires[w1].producer = Unconnected /\ wires[w2].producer = Unconnected
    \/ /\ fuel > 0
       /\ wires[w1].producer.k = "ComponentWrapper"
       /\ wires[w2].producer.k = "ComponentWrapper"
       /\ wires[w1].node_index = wires[w2].node_index
       /\ LET c1 == comps[wires[w1].producer.id]
              c2 == comps[wires[w2].producer.id]
          IN /\ [c1 EXCEPT !.inputs = <<>>] = [c2 EXCEPT !.inputs = <<>>]
             /\ DOMAIN c1.inputs = DOMAIN c2.inputs
             /\ \A name \in DOMAIN c1.inputs :
                  SameWire(c1.inputs[name], c2.inputs[name], k, fuel - 1)
\* The producers of the two roots are the same component over the same wires.
SameResult(k) ==
    LET p1 == wires[regs[k]].producer
        p2 == wires[regs[2 * k]].producer
    IN /\ p1.k = "ComponentWrapper" /\ p2.k = "ComponentWrapper"
       /\ comps[p1.id].kind = comps[p2.id].kind
       /\ comps[p1.id].function = comps[p2.id].function
       /\ DOMAIN comps[p1.id].inputs = DOMAIN comps[p2.id].inputs
       /\ \A name \in DOMAIN comps[p1.id].inputs :
            SameWire(comps[p1.id].inputs[name], comps[p2.id].inputs[name], k, 2)
\* C20: two runs of optimize_arithmetic on structurally identical graphs with
\* the same root order produce identical fused-function bodies and identical
\* port-to-wire bindings, whatever the order in which the sets of wires and
\* of components were iterated.
C20_Deterministic == TwinRan => SameResult(TwinSize)

\* ------------------------------------------------------------------- C21
RECURSIVE Ascending(_)
\* The wires of a set, the least first.
Ascending(S) ==
    IF S = {} THEN <<>>
    ELSE LET least == CHOOSE w \in S : \A v \in S : w <= v
         IN <<least>> \o Ascending(S \ {least})
\* The value of the lowering r under the values env of the input markers:
\* each wire it collected reads as the wire does.
LoweredVal(r, env) ==
    LET order == Ascending(r.wires)
    IN EvalExpr(RenameWires(r.fn, order, 1),
                [name \in SeqRange(Names) |->
                    IF \E i \in 1..Len(order) : Names[i] = name
                      THEN WireVal(r.h, order[CHOOSE i \in 1..Len(order) :
                                                  Names[i] = name],
                                   env, Len(r.h.comps) + 1)
                    ELSE 0])
\* The wire is produced by a primitive the lowering recognizes (or by
\* nothing), it may be optimized, and it has a value.
RecognizedWires ==
    {w \in 1..Len(wires) :
        /\ \/ wires[w].producer = Unconnected
           \/ /\ wires[w].producer.k = "ComponentWrapper"
              /\ comps[wires[w].producer.id].optimize
              /\ comps[wires[w].producer.id].kind \in LoweredKinds
        /\ wires[w].wire_type = "Boolean"
        /\ Evaluable(Heap, w)}
\* C21: every recognized lowering yields an expression that evaluates to 0
\* or 1 for every assignment of numbers to its operands, and to 1 exactly
\* when the boolean primitive it replaces outputs on, sgn being -1 below 0
\* and 1 otherwise.
C21_LoweringExact ==
    (pc = "script" /\ ~OptimizerStarted) =>
      \A w \in RecognizedWires :
         LET r == inner_optimize_numerical_boolean(Heap, w, TRUE)
         IN /\ ~r.err
            /\ r.ok =>
                 \A env \in Envs :
                    /\ LoweredVal(r, env) \in {0, 1}
                    /\ LoweredVal(r, env) =
                         WireVal(Heap, w, env, Len(comps) + 1)

\* ------------------------------------------------------------------- C22
\* The call of optimize_arithmetic has ended: it returned, or it raised.
OptimizerEnded == OptimizerReturned \/ OptimizerRaised
\* The optimizable components of the kind that the optimizer was given as
\* the producers of its wires.
RootsOfKind(kind) ==
    {c \in 1..Len(before.comps) :
        /\ CW(c) \in Roots(before)
        /\ before.comps[c].kind = kind
        /\ before.comps[c].optimize}
\* The wires given to the optimizer that the component produced.
RootWires(c) ==
    {opt_wires[i] : i \in {j \in 1..Len(opt_wires) :
                              before.wires[opt_wires[j]].producer = CW(c)}}
\* The wire is produced by an optimizable primitive the lowering recognizes.
RecognizedRoot(H, w) ==
    /\ H.wires[w].producer.k = "ComponentWrapper"
    /\ H.comps[H.wires[w].producer.id].optimize
    /\ H.comps[H.wires[w].producer.id].kind \in LoweredKinds
\* The component is as it was, and still produces the wires given for it.
LeftUnchanged(c) ==
    /\ comps[c] = before.comps[c]
    /\ \A w \in RootWires(c) : wires[w].producer = CW(c)
\* The body is (T)*on + (1-T)*off.
SwitchShape(e) ==
    /\ e.op = "+"
    /\ e.args[1].op = "*"
    /\ e.args[2].op = "*"
    /\ e.args[2].args[1] = Op2("-", Num(1), e.args[1].args[1])
\* The wires given for the component are now produced by one new function
\* of that shape.
ReplacedBySwitchFunction(c) ==
    \E f \in NewComponents :
        /\ IsFunction(comps[f])
        /\ SwitchShape(comps[f].function)
        /\ \A w \in RootWires(c) : wires[w].producer = CW(f)
\* C22: an optimizable NumericalSwitchbox whose switch signal is produced by
\* a recognized boolean primitive is replaced by a single fused function
\* (T)*on + (1-T)*off exactly when the lowering of its switch subtree
\* collects at most 6 external wires; with 7 or more, or when the root of
\* the switch signal is not a recognized primitive, it is left unchanged.
C22_SwitchboxRewritten ==
    OptimizerEnded =>
      \A c \in RootsOfKind("NumericalSwitchbox") :
        LET sw == before.comps[c].inputs["switch_signal_input"]
            r == inner_optimize_numerical_boolean(before, sw, TRUE)
        IN /\ (/\ RecognizedRoot(before, sw)
               /\ r.ok \/ r.err
               /\ Cardinality(r.wires) <= 6) => ReplacedBySwitchFunction(c)
           /\ (\/ ~RecognizedRoot(before, sw)
               \/ r.ok /\ Cardinality(r.wires) >= 7) => LeftUnchanged(c)

\* ------------------------------------------------------------------- C23
\* The inputs of the component that are connected.
ConnectedInputs(f) ==
    {name \in DOMAIN comps[f].inputs :
        wires[comps[f].inputs[name]].producer.k # "Unconnected"}
\* The inputs of the component that read the component's own output.
SelfInputs(f) ==
    {name \in DOMAIN comps[f].inputs :
        wires[comps[f].inputs[name]].producer = CW(f)}
\* The wires given for the counter are now produced by one new function
\* that reads n wires and, through exactly one more input, itself.
ReplacedByCounterFunction(c, n) ==
    \E f \in NewComponents :
        /\ IsFunction(comps[f])
        /\ \A w \in RootWires(c) : wires[w].producer = CW(f)
        /\ Cardinality(SelfInputs(f)) = 1
        /\ Cardinality(ConnectedInputs(f)) = n + 1
GateKinds == {"NOT", "AND", "NAND", "OR", "NOR", "XOR"}
\* The component may be optimized and is one of those primitives.
IsOpenGate(H, p) ==
    /\ p.k = "ComponentWrapper"
    /\ H.comps[p.id].optimize
    /\ H.comps[p.id].kind \in GateKinds
RECURSIVE BooleanTree(_, _, _)
\* The wires of the subtree the lowering of w walks: w, and the Boolean
\* inputs of every optimizable gate on the way.
BooleanTree(H, w, fuel) ==
    IF fuel = 0 \/ ~IsOpenGate(H, H.wires[w].producer) THEN {w}
    ELSE {w} \cup UNION {BooleanTree(H, H.comps[H.wires[w].producer.id].inputs[n],
                                     fuel - 1) :
                            n \in DOMAIN H.comps[H.wires[w].producer.id].inputs}
\* The producer of the wire is a component that must not be optimized.
PinnedProducer(H, v) ==
    /\ H.wires[v].producer.k = "ComponentWrapper"
    /\ ~H.comps[H.wires[v].producer.id].optimize
\* The producer of the wire is outside the set the lowering recognizes.
UnrecognizedProducer(H, v) ==
    /\ H.wires[v].producer.k # "Unconnected"
    /\ \/ H.wires[v].producer.k # "ComponentWrapper"
       \/ H.comps[H.wires[v].producer.id].kind \notin LoweredKinds
\* The lowering r of a tree reads the wire v through a switchbox it made.
ReadThroughSwitchbox(H, r, v) ==
    \E c \in (Len(H.comps) + 1)..Len(r.h.comps) :
        /\ r.h.comps[c].kind = "NumericalSwitchbox"
        /\ r.h.comps[c].inputs["switch_signal_input"] = v
        /\ \E x \in r.wires : r.h.wires[x].producer = CW(c)
\* The Boolean wires there are before the optimizer is called.
BooleanWires ==
    IF pc = "script" /\ ~OptimizerStarted
      THEN {w \in 1..Len(wires) : wires[w].wire_type = "Boolean"}
    ELSE {}
\* The signals of a component the optimizer rewrites by lowering.
LoweredInputs(c) ==
    IF before.comps[c].kind = "NumericalSwitchbox"
      THEN {before.comps[c].inputs["switch_signal_input"]}
    ELSE {before.comps[c].inputs[n] :
             n \in {"up_input", "down_input", "reset_input"}}
\* C24 as the specification states it: the lowering yields no expression
\* whenever the subtree contains, at the root or at any depth below it, a
\* component that must not be optimized or a producer outside the
\* recognized set.
C24_AbortsAtAnyDepth ==
    \A w \in BooleanWires : \A first \in BOOLEAN :
       (\E v \in BooleanTree(Heap, w, Len(comps)) :
            PinnedProducer(Heap, v) \/ UnrecognizedProducer(Heap, v))
         => ~inner_optimize_numerical_boolean(Heap, w, first).ok
\* C24, amended: the lowering yields no expression whenever a component that
\* must not be optimized produces a wire of the subtree, at the root or at
\* any depth below it, and the switchbox or counter over it is then left
\* as it was; at the root (the switch signal of a switchbox) a producer
\* outside the recognized set makes it fail as well.  Below the root such
\* a producer does not abort the lowering: unless the lowering raises, it
\* yields an expression that reads the wire through a new
\* numerical_switchbox(1, 0, wire).
C24_AbortsOnPinned ==
    /\ \A w \in BooleanWires : \A first \in BOOLEAN :
         LET r == inner_optimize_numerical_boolean(Heap, w, first)
             tree == BooleanTree(Heap, w, Len(comps))
             pinned == \E v \in tree : PinnedProducer(Heap, v)
             at_root == first /\ UnrecognizedProducer(Heap, w)
         IN /\ pinned => ~r.ok
            /\ at_root => ~r.ok /\ ~r.err
            /\ (~pinned /\ ~at_root /\ ~r.err) =>
                 /\ r.ok
                 /\ \A v \in tree :
                       UnrecognizedProducer(Heap, v)
                         => ReadThroughSwitchbox(Heap, r, v)
    /\ OptimizerEnded =>
         \A c \in RootsOfKind("NumericalSwitchbox")
                  \cup RootsOfKind("UpDownCounter") :
            (\E w \in LoweredInputs(c) :
                \E v \in BooleanTree(before, w, Len(before.comps)) :
                   PinnedProducer(before, v))
              => LeftUnchanged(c)
\* A switchbox whose switch signal is a gate over a comparator that must
\* not be optimized was given to the optimizer and left as it was.
C24_PinnedBelowRoot ==
    /\ OptimizerReturned
    /\ \E c \in RootsOfKind("NumericalSwitchbox") :
         LET sw == before.comps[c].inputs["switch_signal_input"]
         IN /\ ~PinnedProducer(before, sw)
            /\ \E v \in BooleanTree(before, sw, Len(before.comps)) :
                  PinnedProducer(before, v)
            /\ LeftUnchanged(c)

\* ------------------------------------------------------------------- C25
\* The input ports of the component c of cs that hold the wire w.
PortsHolding(cs, c, w) == {n \in DOMAIN cs[c].inputs : cs[c].inputs[n] = w}
\* The wires on the input ports of a component, the Unconnected ones aside.
HeldWires(H, c) ==
    {H.comps[c].inputs[n] : n \in DOMAIN H.comps[c].inputs}
        \ {w \in 1..Len(H.wires) : H.wires[w].producer.k = "Unconnected"}
\* This step ends a call of find_optimizations that merged producers into
\* the consumer of the frame at the top of the stack.
MergeEnds ==
    /\ InFind
    /\ Top.optimized \in 1..Len(comps)
    /\ Len(stack') < Len(stack)
    /\ comps'[Top.optimized].inputs # comps[Top.optimized].inputs
\* After the step each wire the consumer reads is on one port, or on as
\* many ports as the consumer had it on before the merge.
BoundOnce ==
    \A w \in HeldWires([comps |-> comps', wires |-> wires'], Top.optimized) :
       \/ Cardinality(PortsHolding(comps', Top.optimized, w)) = 1
       \/ PortsHolding(comps', Top.optimized, w)
             = PortsHolding(comps, Top.optimized, w)
\* The program of src/testfile.py has been optimized.
TestfileOptimized ==
    /\ OptimizerReturned
    /\ Len(script) = 6
    /\ script[4].kind = "sub" /\ script[4].args[2] = ANum(5)
    /\ script[5].kind = "mul" /\ script[5].args = <<AReg(4), AReg(3)>>
\* The producer of the wire of register r is a function over exactly the
\* wires of the registers 1 and 2.
FusedOverTwo(r) ==
    /\ wires[regs[r]].producer.k = "ComponentWrapper"
    /\ IsFunction(comps[wires[regs[r]].producer.id])
    /\ get_input_count(Heap, wires[regs[r]].producer.id) = 2
    /\ HeldWires(Heap, wires[regs[r]].producer.id) = {regs[1], regs[2]}
ReachableWires ==
    {opt_wires[i] : i \in 1..Len(opt_wires)}
    \cup UNION {{comps[p.id].inputs[n] : n \in DOMAIN comps[p.id].inputs} :
                  p \in {q \in Reachable(Heap, Roots(Heap)) :
                            q.k = "ComponentWrapper"}}
\* The component is one the optimizer replaced by a different one.
Replaced(c) ==
    c \in DOMAIN optimized_components /\ optimized_components[c] # c
\* C26: when optimize_arithmetic returns, no wire reachable from the roots
\* has as producer a component that the optimizer replaced by a different
\* one: each root wire is produced by the form recorded for its original
\* producer (what a memoized call of find_optimizations returns for it),
\* and a component that reads itself reads the merged component.
C26_NoStaleProducer ==
    OptimizerReturned =>
      /\ \A w \in ReachableWires :
            wires[w].producer.k = "ComponentWrapper"
              => ~Replaced(wires[w].producer.id)
      /\ \A i \in 1..Len(opt_wires) :
            (/\ before.wires[opt_wires[i]].producer.k = "ComponentWrapper"
             /\ before.wires[opt_wires[i]].producer.id
                   \in DOMAIN optimized_components)
              => wires[opt_wires[i]].producer =
                   CW(optimized_components[
                          before.wires[opt_wires[i]].producer.id])

\* ------------------------------------------------------------------- C27
\* The arithmetic primitives whose bodies the inliner merges.
PlainKinds == {"Add", "Subtract", "Multiply", "ConstantNumber"}
\* The graph the optimizer was given is plain arithmetic in which a
\* component that another one reads has an absent (Unconnected) operand.
AbsentOperandInlined ==
    /\ \A c \in ReachedBefore : before.comps[c].kind \in PlainKinds
    /\ \E c \in ReachedBefore :
         /\ CW(c) \notin Roots(before)
         /\ \E n \in DOMAIN before.comps[c].inputs :
               before.wires[before.comps[c].inputs[n]].producer.k
                   = "Unconnected"
\* C27: no variable is captured during inlining.  Where the body of an
\* inlined producer mentions the variable of an Unconnected port (the x of
\* the x-y that negates a wire, an Add with one operand absent), that
\* occurrence reads 0 in the merged body and is never bound to an input
\* wire of the merged node: the merged node has the value the graph had.
C27_NoCapture ==
    (OptimizerReturned /\ ~rerun /\ AbsentOperandInlined) =>
        \A i \in 1..Len(opt_wires) :
            Evaluable(before, opt_wires[i])
            => \A env \in Envs :
                   WireVal(Heap, opt_wires[i], env, Len(comps) + 1)
                   = WireVal(before, opt_wires[i], env, Len(before.comps) + 1)

\* ------------------------------------------------------------------- C28
\* The ids of the input nodes that the microcontroller with the nodes ns
\* made for the input marker m.
OwnNodeIds(ns, m) ==
    {ns[i].component_id :
        i \in {j \in 1..Len(ns) : ns[j].mode = "Input" /\ ns[j].name = m}}
\* The input read from the wire w, if an input marker produces w, carries
\* the id of the node that this microcontroller made for the marker.
WiredToOwn(ns, w, input_) ==
    wires[w].producer.k = "InputPlaceholder"
      => /\ ~input_.none
         /\ input_.component_id \in OwnNodeIds(ns, wires[w].producer.id)
\* A compiled microcontroller (its nodes, its placed outputs, the
\* components it emitted) wires every consumer of an input to its own node.
OwnInputsWired(ns, outs, members) ==
    /\ \A i \in 1..Len(outs) :
          WiredToOwn(ns, outs[i].wire, ns[outs[i].node].input)
    /\ \A m \in members : \A n \in DOMAIN m.inputs :
          WiredToOwn(ns, comps[m.wrapper].inputs[n], m.inputs[n])
\* C28: compiles are independent.  When the same input wire is placed on
\* two microcontrollers and both are compiled, each compiled
\* microcontroller wires the consumers of that input to the id of the input
\* node that this microcontroller itself created for it.
C28_CompilesIndependent ==
    /\ ResolverSucceeded
          => OwnInputsWired(nodes, placed_outputs, mc_components)
    /\ other_mc.next_id > 0
          => OwnInputsWired(other_mc.nodes, other_mc.placed_outputs,
                            other_mc.mc_components)

\* ------------------------------------------------------------------- C29
\* The nodes stand on different positions of the grid of 6 by 6, and the
\* width and length reach past every one of them.
NodesApart(ns) ==
    \A i, j \in 1..Len(ns) : (ns[i].x = ns[j].x /\ ns[i].y = ns[j].y) => i = j
NodesInside(ns) == \A i \in 1..Len(ns) : ~Outside(ns[i].x, ns[i].y)
NodesCovered(ns, w, l) == \A i \in 1..Len(ns) : ns[i].x < w /\ ns[i].y < l
\* The step is a call of place_input or place_output.
PlacementCall == Calling("place_input") \/ Calling("place_output")
\* The step has placed a node beyond the width or the length it found.
PlacedBeyond ==
    /\ Len(nodes') = Len(nodes) + 1
    /\ \/ nodes'[Len(nodes')].x >= width
       \/ nodes'[Len(nodes')].y >= length
\* C29: after any placements, accepted or rejected, no two nodes of a
\* microcontroller stand on one position, every node is within 0..5 in both
\* coordinates, the width and length cover every node, and a placement
\* never shrinks the width or length and changes them exactly when it has
\* placed a node beyond them.
C29_PlacementKeepsGrid ==
    /\ [](/\ NodesApart(nodes) /\ NodesInside(nodes)
          /\ NodesCovered(nodes, width, length)
          /\ NodesApart(other_mc.nodes) /\ NodesInside(other_mc.nodes)
          /\ NodesCovered(other_mc.nodes, other_mc.width, other_mc.length))
    /\ [][PlacementCall
          => /\ width' >= width
             /\ length' >= length
             /\ (width' # width \/ length' # length) <=> PlacedBeyond]_vars

\* ------------------------------------------------------------------- C30
\* replace_in_vehicle has run over a vehicle file.
VehicleHandled == vehicle_xml.handled
\* The embedded microcontroller carries the name of a compiled one and the
\* builder's description.
Qualifies(mc) == mc.name \in vehicle_xml.names /\ mc.desc = BUILDER_IDENTIFIER
\* C30: writing to a vehicle replaces an embedded microcontroller only if
\* its name is that of a compiled microcontroller and the description of its
\* data is the builder identifier; every other embedded microcontroller is
\* as it was, and the file is not written when none qualifies.
C30_OnlyOwnReplaced ==
    VehicleHandled
      => /\ Len(vehicle_xml.mcs) = Len(vehicle_xml.file.mcs)
         /\ \A i \in 1..Len(vehicle_xml.mcs) :
               ~Qualifies(vehicle_xml.file.mcs[i])
                 => vehicle_xml.mcs[i] = vehicle_xml.file.mcs[i]
         /\ (\A i \in 1..Len(vehicle_xml.file.mcs) :
                ~Qualifies(vehicle_xml.file.mcs[i]))
              => ~vehicle_xml.written
\* A vehicle with a microcontroller of the builder and one made by hand
\* under the same name has been written: the first is replaced, the second
\* is as it was.
C30_OneOfTwoReplaced ==
    /\ VehicleHandled
    /\ vehicle_xml.written
    /\ Len(vehicle_xml.mcs) = 2
    /\ vehicle_xml.file.mcs[1].name = vehicle_xml.file.mcs[2].name
    /\ vehicle_xml.mcs[1].children.compiled
    /\ vehicle_xml.mcs[1].children.objs # {}
    /\ vehicle_xml.file.mcs[2].desc = "hand made"
    /\ vehicle_xml.mcs[2] = vehicle_xml.file.mcs[2]

====
